---- MODULE Spec2Model ----
(***************************************************************************)
(* A model of web/app.py, the Airglow status dashboard: the discovery      *)
(* record parser and merge engine (parse_avahi_browse_output), the         *)
(* identity matcher of get_airplay_status, the status source adapters and  *)
(* the status aggregator (status).                                         *)
(*                                                                         *)
(* Python strings are TLA+ strings; the str methods the code uses are      *)
(* defined below from Len, SubSeq and \o.  The arms of a CASE are written  *)
(* in the order in which the code makes its tests, and an arm is meant     *)
(* only when no arm before it applies.                                     *)
(***************************************************************************)
EXTENDS Integers, Sequences, FiniteSets, TLC

VARIABLES
    bpc,                \* position inside one browse check: start, lines, filter, parsed, matched
    output,             \* the stdout text handed to parse_avahi_browse_output
    lines,              \* output.split('\n')
    cursor,             \* index of the next element of lines
    device_map,         \* the dict of merged entries, in insertion order
    devices,            \* the list parse_avahi_browse_output returns
    device_name,        \* the configured AirPlay name (get_airplay_name)
    found_device,       \* get_airplay_status: found_device
    all_found_devices,  \* get_airplay_status: all_found_devices
    spc,                \* position inside status(): the adapter called next
    env,                \* the condition of the sources during the request
    container_data,     \* status(): container_data
    diagnostics,        \* status(): diagnostics
    airplay_status,     \* status(): airplay_status
    browsed,            \* the results of the avahi-browse calls of the request
    status_data,        \* status(): the entries of status_data filled so far
    response,           \* the HTTP response of the request
    elapsed,            \* seconds spent in subprocess.run since the request began
    call,               \* the last adapter call and the exception it ended in
    DIAGNOSTIC_RATE_LIMIT,  \* the request times kept for each client address
    clock,              \* time()
    handled,            \* the calls of diagnose() so far: for each client, their times
    workers,            \* each server thread inside rate_limit_diagnose: position and locals
    observed,           \* the outcomes of the sources probed by the request, when audited
    audit,              \* whether requests are audited, and one answered request kept
    request,            \* the path argument or the JSON body of the request being answered
    hooks_yaml          \* what was last written to HOOKS_YAML

browseVars == <<bpc, output, lines, cursor, device_map, devices,
                device_name, found_device, all_found_devices>>

statusVars == <<spc, env, container_data, diagnostics, airplay_status, browsed,
                status_data, response, elapsed, call,
                DIAGNOSTIC_RATE_LIMIT, clock, handled, workers, observed, audit,
                request, hooks_yaml>>

limiterVars == <<DIAGNOSTIC_RATE_LIMIT, clock, handled, workers>>

configVars == <<request, hooks_yaml>>

vars == <<browseVars, statusVars>>

-----------------------------------------------------------------------------
(* Bounds of the model.                                                    *)

\* The largest number of lines in one browse output.
MaxLines == 3

\* The number of server threads that handle requests at the same time.
MaxWorkers == 2

\* The number of times the clock is seen to advance, by half a rate-limit
\* window each time.
MaxTicks == 2

\* The number of calls of diagnose() within the window, for one client,
\* from which on no further request of the client arrives.
MaxAdmitted == 6

-----------------------------------------------------------------------------
(* The clients and server threads of /api/diagnose.                        *)

\* request.remote_addr of the clients.
FirstClient == "10.0.0.1"
Clients == {FirstClient, "10.0.0.2"}

\* DIAGNOSTIC_RATE_LIMIT = {}: no request time kept for any client (a
\* missing key is read as the empty list).
NoRequests == [c \in Clients |-> <<>>]

Workers == 1..MaxWorkers

\* No thread is inside rate_limit_diagnose.
IdleWorker == [pc |-> "idle", client_id |-> "", current_time |-> 0, kept |-> <<>>]
NoWorkers == [w \in Workers |-> IdleWorker]

-----------------------------------------------------------------------------
(* Python str operations.                                                  *)

\* The first index in i..hi where sub occurs in s, or 0.
RECURSIVE FindWithin(_, _, _, _)
FindWithin(s, sub, i, hi) ==
    IF i > hi THEN 0
    ELSE IF SubSeq(s, i, i + Len(sub) - 1) = sub THEN i
    ELSE FindWithin(s, sub, i + 1, hi)

\* str.find, 1-based: the first index >= i where sub occurs in s, or 0.
\* The scan goes block by block to keep the evaluation shallow.
RECURSIVE Find(_, _, _)
Find(s, sub, i) ==
    LET last == Len(s) - Len(sub) + 1
        hi == IF i + 31 < last THEN i + 31 ELSE last
        hit == FindWithin(s, sub, i, hi)
    IN  IF i > last THEN 0
        ELSE IF hit # 0 THEN hit
        ELSE Find(s, sub, hi + 1)

\* sub in s
Contains(sub, s) == Find(s, sub, 1) # 0

\* s.startswith(p)
StartsWith(s, p) == Len(p) <= Len(s) /\ SubSeq(s, 1, Len(p)) = p

\* s.split(sep), sep non-empty: always at least one element.
RECURSIVE Split(_, _)
Split(s, sep) ==
    LET i == Find(s, sep, 1)
    IN  IF i = 0 THEN <<s>>
        ELSE <<SubSeq(s, 1, i - 1)>> \o Split(SubSeq(s, i + Len(sep), Len(s)), sep)

\* sep.join(parts)
RECURSIVE Join(_, _)
Join(parts, sep) ==
    IF Len(parts) = 0 THEN ""
    ELSE IF Len(parts) = 1 THEN parts[1]
    ELSE parts[1] \o sep \o Join(Tail(parts), sep)

\* s.replace(old, new), old non-empty.
Replace(s, old, new) == Join(Split(s, old), new)

UpperCase == "ABCDEFGHIJKLMNOPQRSTUVWXYZ"
LowerCase == "abcdefghijklmnopqrstuvwxyz"

\* The lower-case letter of each upper-case ASCII letter.
ToLower ==
    [c \in {SubSeq(UpperCase, i, i) : i \in 1..Len(UpperCase)} |->
        LET i == Find(UpperCase, c, 1) IN SubSeq(LowerCase, i, i)]

\* s.lower() on ASCII text, by halves.
RECURSIVE Lower(_)
Lower(s) ==
    IF Len(s) = 0 THEN ""
    ELSE IF Len(s) = 1 THEN (IF s \in DOMAIN ToLower THEN ToLower[s] ELSE s)
    ELSE LET half == Len(s) \div 2
         IN  Lower(SubSeq(s, 1, half)) \o Lower(SubSeq(s, half + 1, Len(s)))

IsSpace(c) == c \in {" ", "\t", "\n", "\r"}

RECURSIVE LStrip(_)
LStrip(s) ==
    IF Len(s) > 0 /\ IsSpace(SubSeq(s, 1, 1)) THEN LStrip(Tail(s)) ELSE s

RECURSIVE RStrip(_)
RStrip(s) ==
    IF Len(s) > 0 /\ IsSpace(SubSeq(s, Len(s), Len(s)))
    THEN RStrip(SubSeq(s, 1, Len(s) - 1)) ELSE s

\* s.strip()
Strip(s) == LStrip(RStrip(s))

\* Python None where the code keeps an optional string.  Group 1 of the
\* patterns below is never empty, and every test of these values is a
\* truthiness test, which None and '' both fail.
None == ""

\* re.search(r'"<key>=([^"]+)"', txt).group(1), or None without a match:
\* the leftmost '"<key>=' that is followed by one or more characters other
\* than '"' and then a '"'.
RECURSIVE SearchQuoted(_, _, _)
SearchQuoted(txt, key, from) ==
    LET open == "\"" \o key \o "="
        i == Find(txt, open, from)
    IN  IF i = 0 THEN None
        ELSE LET b == i + Len(open)
                 j == Find(txt, "\"", b)
             IN  IF j > b THEN SubSeq(txt, b, j - 1)
                 ELSE SearchQuoted(txt, key, i + 1)

-----------------------------------------------------------------------------
(* parse_avahi_browse_output: one resolved line.                           *)

\* part i of line.split(';'), 0-based as in the code
Part(parts, i) == parts[i + 1]

\* Whether the loop body consumes the line: it contains ';', its first
\* field is '=' and it has at least 10 fields.
\* (';' in line exactly when the split yields more than one part.)
IsResolved(parts) ==
    Len(parts) > 1 /\ Part(parts, 0) = "=" /\ Len(parts) >= 10

\* ReplaceEscapes with no escape replaced.
ReplaceEscapesNone(s) == s

\* The other escapes replaced in a decoded name.
ReplaceEscapes(s) ==
    Replace(Replace(Replace(Replace(s, "\\032", " "), "\\126", "~"),
                    "\\040", " "), "\\041", "!")

\* The decoded device name of a raw service name, before the hostname
\* fallback.
DecodeName(name) ==
    IF Contains("\\064", name)
    THEN LET name_parts == Split(name, "\\064")
         IN  IF Len(name_parts) > 1
             THEN ReplaceEscapes(name_parts[Len(name_parts)])
             ELSE "Unknown Device"
    ELSE IF name # "" THEN ReplaceEscapes(name)
    ELSE "Unknown Device"

\* HostnameFallback with the whole hostname taken as it is.
HostnameFallbackWhole(stripped, hostname) ==
    IF (stripped = "" \/ stripped = "Unknown Device") /\ hostname # ""
    THEN hostname
    ELSE stripped

\* The device name of a line: decoded, stripped, and taken from the
\* hostname's first label when empty or unknown.
HostnameFallback(stripped, hostname) ==
    IF (stripped = "" \/ stripped = "Unknown Device") /\ hostname # ""
    THEN Replace(Split(hostname, ".")[1], "-", " ")
    ELSE stripped

DeviceName(name, hostname) == HostnameFallback(Strip(DecodeName(name)), hostname)

\* The suffix that tags the display name with its service type.
ServiceLabel(service_type) ==
    IF Contains("_raop._tcp", Lower(service_type)) THEN " (AirPlay 2 Audio)"
    ELSE IF Contains("_airplay._tcp", Lower(service_type)) THEN " (AirPlay Video)"
    ELSE ""

\* The provisional record of one resolved line: its fields, its decoded
\* name, its TXT metadata and its grouping key.
Record(parts, line, hostname, service_type, txt_record, dname) ==
    [ interface |-> Part(parts, 1),
      protocol |-> Part(parts, 2),
      device_name |-> dname,
      service_type |-> service_type,
      hostname |-> hostname,
      address |-> Part(parts, 7),
      port |-> Part(parts, 8),
      firmware_version |-> SearchQuoted(txt_record, "fv", 1),
      feature_flags |-> SearchQuoted(txt_record, "ft", 1),
      device_key |-> Lower(IF hostname # "" THEN hostname ELSE dname)
                        \o "|" \o Lower(service_type),
      service_label |-> ServiceLabel(service_type),
      line |-> line ]

LineRecord(parts, line) ==
    Record(parts, line, Part(parts, 6), Part(parts, 4),
           Join(SubSeq(parts, 10, Len(parts)), ";"),
           DeviceName(Part(parts, 3), Part(parts, 6)))

\* A new device_map entry for a line whose key is not yet present.
NewEntry(r) ==
    [ device_key |-> r.device_key,
      name |-> r.device_name \o r.service_label,
      interface |-> r.interface,
      protocol |-> r.protocol,
      hostname |-> r.hostname,
      address |-> r.address,
      port |-> r.port,
      firmware_version |-> r.firmware_version,
      feature_flags |-> r.feature_flags,
      service_type |-> r.service_type,
      raw_avahi_data |-> <<>> ]

\* The index in device_map of the entry with this key, or 0.
RECURSIVE KeyIndex(_, _, _)
KeyIndex(map, key, i) ==
    IF i > Len(map) THEN 0
    ELSE IF map[i].device_key = key THEN i
    ELSE KeyIndex(map, key, i + 1)

\* The address preference of the merge: whether the line's address
\* replaces the entry's address, interface and protocol.
ReplacesAddress(existing, r) ==
    /\ r.address # ""
    /\ \/ StartsWith(r.address, "192.168.") /\ ~StartsWith(existing.address, "192.168.")
       \/ r.protocol = "IPv4" /\ existing.protocol = "IPv6"
       \/ existing.address = ""

PreferAddress(existing, r) ==
    IF ReplacesAddress(existing, r)
    THEN [existing EXCEPT !.address = r.address,
                          !.interface = r.interface,
                          !.protocol = r.protocol]
    ELSE existing

\* FillMetadata with the values of the line taken whenever it carries them.
FillMetadataLastSeen(existing, r) ==
    [existing EXCEPT
        !.firmware_version = IF r.firmware_version # None THEN r.firmware_version ELSE @,
        !.feature_flags = IF r.feature_flags # None THEN r.feature_flags ELSE @]

\* Firmware version and feature flags are filled in only when missing.
FillMetadata(existing, r) ==
    [existing EXCEPT
        !.firmware_version =
            IF @ = None /\ r.firmware_version # None THEN r.firmware_version ELSE @,
        !.feature_flags =
            IF @ = None /\ r.feature_flags # None THEN r.feature_flags ELSE @]

\* EntryIndex without the lookup of an existing key: every line opens an
\* entry of its own.
EntryIndexAlwaysNew(map, r) == Len(map) + 1

\* The position of the entry a line is merged into: the entry with the
\* line's key, or a new entry at the end of the dict.
EntryIndex(map, r) ==
    LET i == KeyIndex(map, r.device_key, 1)
    IN  IF i = 0 THEN Len(map) + 1 ELSE i

\* One resolved line merged into device_map.
\* The record r merged into the entry at position k, which is created
\* first when k is past the end.
MergeAt(map, r, k) ==
    LET created == IF k > Len(map) THEN Append(map, NewEntry(r)) ELSE map
    IN  [created EXCEPT ![k] =
            FillMetadata(PreferAddress([@ EXCEPT !.raw_avahi_data = Append(@, r.line)],
                                       r), r)]

MergeRecord(map, r) == MergeAt(map, r, EntryIndex(map, r))

MergeLine(map, parts, line) == MergeRecord(map, LineRecord(parts, line))

\* ConsumeParts with a line that is not consumed discarding the entries
\* merged before it.
ConsumePartsResetting(map, line, parts) ==
    IF line # "" /\ IsResolved(parts) THEN MergeLine(map, parts, line) ELSE <<>>

\* The body of the loop over lines for one element of output.split('\n').
ConsumeParts(map, line, parts) ==
    IF line # "" /\ IsResolved(parts) THEN MergeLine(map, parts, line) ELSE map

ConsumeStripped(map, line) == ConsumeParts(map, line, Split(line, ";"))

ConsumeLine(map, raw) == ConsumeStripped(map, Strip(raw))

\* A returned device: the entry with its address_display.
Device(entry) ==
    [ name |-> entry.name,
      interface |-> entry.interface,
      protocol |-> entry.protocol,
      hostname |-> entry.hostname,
      address |-> entry.address,
      port |-> entry.port,
      firmware_version |-> entry.firmware_version,
      feature_flags |-> entry.feature_flags,
      service_type |-> entry.service_type,
      raw_avahi_data |-> entry.raw_avahi_data,
      address_display |-> entry.address ]

\* EmitDevices with every entry returned.
EmitDevicesAll(map) == [i \in DOMAIN map |-> Device(map[i])]

\* The conversion of device_map to the returned list: entries with an
\* address or a hostname, in insertion order.
RECURSIVE EmitDevices(_)
EmitDevices(map) ==
    IF Len(map) = 0 THEN <<>>
    ELSE (IF map[1].address # "" \/ map[1].hostname # ""
          THEN <<Device(map[1])>> ELSE <<>>) \o EmitDevices(Tail(map))

RECURSIVE ConsumeLines(_, _)
ConsumeLines(map, rest) ==
    IF Len(rest) = 0 THEN map
    ELSE ConsumeLines(ConsumeLine(map, rest[1]), Tail(rest))

\* The whole function on one output text.
parse_avahi_browse_output(text) ==
    IF text = "" \/ Strip(text) = "" THEN <<>>
    ELSE EmitDevices(ConsumeLines(<<>>, Split(text, "\n")))

-----------------------------------------------------------------------------
(* get_airplay_status: the identity matcher.                               *)

\* MatchesDevice with equality in place of containment.
MatchesDeviceExact(configured, device) ==
    \/ Lower(configured) = Lower(device.name)
    \/ Lower(configured) = Lower(device.hostname)
    \/ Lower(Replace(Replace(configured, "~", ""), " ", ""))
          = Lower(Replace(Replace(Lower(device.name), "~", ""), " ", ""))
    \/ Lower(Replace(Replace(configured, "~", ""), " ", ""))
          = Lower(Replace(Replace(Lower(device.hostname), "~", ""), " ", ""))

\* MatchesDevice without the comparison of the cleaned forms.
MatchesDevicePlain(configured, device) ==
    \/ Contains(Lower(configured), Lower(device.name))
    \/ Contains(Lower(configured), Lower(device.hostname))

\* The test of the loop body: the configured name against one device.
MatchesDevice(configured, device) ==
    LET device_display_name == Lower(device.name)
        device_hostname == Lower(device.hostname)
        device_name_clean == Lower(Replace(Replace(configured, "~", ""), " ", ""))
        display_clean == Lower(Replace(Replace(device_display_name, "~", ""), " ", ""))
        hostname_clean == Lower(Replace(Replace(device_hostname, "~", ""), " ", ""))
    IN  \/ Contains(Lower(configured), device_display_name)
        \/ Contains(Lower(configured), device_hostname)
        \/ Contains(device_name_clean, display_clean)
        \/ Contains(device_name_clean, hostname_clean)

\* The name recorded in all_found_devices for a device.
FoundName(device) ==
    IF Lower(device.name) # "" THEN Lower(device.name) ELSE Lower(device.hostname)

\* The loop over the devices of one browse: every device up to and
\* including the first match is recorded, and the loop breaks at a match.
RECURSIVE ScanDevices(_, _, _)
ScanDevices(configured, devs, seen) ==
    IF Len(devs) = 0 THEN [found |-> FALSE, seen |-> seen]
    ELSE IF MatchesDevice(configured, devs[1])
         THEN [found |-> TRUE, seen |-> Append(seen, FoundName(devs[1]))]
         ELSE ScanDevices(configured, Tail(devs), Append(seen, FoundName(devs[1])))

-----------------------------------------------------------------------------
(* subprocess.run: what one spawned command comes to.                      *)

\* Every subprocess.run of the status adapters passes timeout=5, except
\* the diagnostic script, which gets timeout=2.
SubprocessTimeout == 5
DiagnosticTimeout == 2

\* The command exited 0 and wrote text to its stdout.
Ok(text) == [kind |-> "exit0", stdout |-> text]

\* The command exited with a non-zero return code.
NonZero == [kind |-> "nonzero", stdout |-> ""]

\* The command was still running at the timeout.
TimedOut == [kind |-> "timeout", stdout |-> ""]

\* The executable could not be spawned.
NotFound == [kind |-> "notfound", stdout |-> ""]

\* The exception subprocess.run raises for an outcome, "none" when it
\* returns a CompletedProcess.
RunRaises(o) ==
    CASE o.kind = "timeout" -> "TimeoutExpired"
      [] o.kind = "notfound" -> "FileNotFoundError"
      [] OTHER -> "none"

\* The seconds a command takes: a command that answers is counted as
\* immediate, one that hangs takes its whole timeout.
Cost(o, timeout) == IF o.kind = "timeout" THEN timeout ELSE 0

\* The classes of an exception, itself and its base classes.
Bases(exc) ==
    CASE exc = "TimeoutExpired" -> {"TimeoutExpired", "SubprocessError", "Exception"}
      [] exc = "FileNotFoundError" -> {"FileNotFoundError", "OSError", "Exception"}
      [] exc = "JSONDecodeError" -> {"JSONDecodeError", "ValueError", "Exception"}
      [] exc = "IndexError" -> {"IndexError", "LookupError", "Exception"}
      [] OTHER -> {exc, "Exception"}

\* Whether an except clause naming the classes handles exc.
Catches(classes, exc) == exc # "none" /\ Bases(exc) \cap classes # {}

\* The two ways a call ends: with a value or with an exception.
Return(v) == [exc |-> "none", val |-> v]
Raise(e) == [exc |-> e, val |-> None]

\* try: r / except classes: return v
Try(r, classes, v) == IF Catches(classes, r.exc) THEN Return(v) ELSE r

-----------------------------------------------------------------------------
(* JSON values, and json.loads on the payloads of the model.               *)

JNull == [t |-> "null"]
JBool(b) == [t |-> "bool", b |-> b]
JNum(n) == [t |-> "num", n |-> n]
JStr(s) == [t |-> "str", s |-> s]
JList(l) == [t |-> "list", l |-> l]
JDict(d) == [t |-> "dict", d |-> d]

\* The text is not JSON: json.loads raises JSONDecodeError.
JInvalid == [t |-> "invalid"]

\* The stdout texts of the curl calls and of the diagnostic script.
InfoJson == "{\"version\": \"2.0.94\"}"
VirtualsJson == "{\"virtuals\": {\"v1\": {\"active\": true, \"streaming\": true, \"effect\": {\"type\": \"energy\"}}}, \"paused\": false}"
VirtualsListJson == "{\"virtuals\": []}"
DevicesJson == "{\"devices\": {\"d1\": {\"online\": true, \"type\": \"wled\", \"config\": {}}}}"
AudioDevicesJson == "{\"devices\": {\"0\": \"ALSA: pulse\"}, \"active_device_index\": 0}"
ConfigJson == "{\"audio\": {\"audio_device\": 0}}"
DiagJson == "{\"warnings\": 1, \"errors\": 0, \"warning_messages\": [\"LedFX is idle\"], \"error_messages\": []}"
DiagText == "[WARN] LedFX is idle\n[ERROR] Avahi is not running\n"
DevicesListJson == "{\"devices\": []}"
ConfigNullJson == "{\"audio\": null}"
EmptyJson == "{}"
ScenesJson == "{\"scenes\": {\"party\": {\"name\": \"Party\", \"virtuals\": {}}}}"
ListJson == "[]"
NullJson == "null"
HtmlText == "<html>502 Bad Gateway</html>"

json_loads(text) ==
    CASE text = InfoJson -> JDict([version |-> JStr("2.0.94")])
      [] text = VirtualsJson ->
            JDict([virtuals |->
                      JDict([v1 |-> JDict([active |-> JBool(TRUE),
                                           streaming |-> JBool(TRUE),
                                           effect |-> JDict([type |-> JStr("energy")])])]),
                   paused |-> JBool(FALSE)])
      [] text = VirtualsListJson -> JDict([virtuals |-> JList(<<>>)])
      [] text = DevicesJson ->
            JDict([devices |->
                      JDict([d1 |-> JDict([online |-> JBool(TRUE),
                                           type |-> JStr("wled"),
                                           config |-> JDict(<<>>)])])])
      [] text = AudioDevicesJson ->
            JDict([devices |-> JDict([i \in {"0"} |-> JStr("ALSA: pulse")]),
                   active_device_index |-> JNum(0)])
      [] text = ConfigJson -> JDict([audio |-> JDict([audio_device |-> JNum(0)])])
      [] text = DiagJson ->
            JDict([warnings |-> JNum(1), errors |-> JNum(0),
                   warning_messages |-> JList(<<JStr("LedFX is idle")>>),
                   error_messages |-> JList(<<>>)])
      [] text = DevicesListJson -> JDict([devices |-> JList(<<>>)])
      [] text = ConfigNullJson -> JDict([audio |-> JNull])
      [] text = EmptyJson -> JDict(<<>>)
      [] text = ScenesJson ->
            JDict([scenes |->
                      JDict([party |-> JDict([name |-> JStr("Party"),
                                              virtuals |-> JDict(<<>>)])])])
      [] text = ListJson -> JList(<<>>)
      [] text = NullJson -> JNull
      [] OTHER -> JInvalid

\* x.get(k, default) on a dict
Get(x, k, default) == IF k \in DOMAIN x.d THEN x.d[k] ELSE default

\* The exception of 'k in x' followed by x[k] when x is not a dict, "none"
\* when 'k in x' is simply false: None, numbers and booleans are not
\* iterable, a list or str that holds k cannot be indexed by it, and any
\* other list or str just does not hold k.
KeyTestRaises(k, x) ==
    CASE x.t \in {"null", "num", "bool"} -> "TypeError"
      [] x.t = "list" /\ (\E i \in DOMAIN x.l : x.l[i] = JStr(k)) -> "TypeError"
      [] x.t = "str" /\ Contains(k, x.s) -> "TypeError"
      [] OTHER -> "none"

\* bool(x)
Truthy(x) ==
    CASE x.t = "bool" -> x.b
      [] x.t = "num" -> x.n # 0
      [] x.t = "str" -> x.s # ""
      [] x.t = "list" -> x.l # <<>>
      [] x.t = "dict" -> DOMAIN x.d # {}
      [] OTHER -> FALSE

Digit(n) == SubSeq("0123456789", n + 1, n + 1)

RECURSIVE Decimal(_)
Decimal(n) == IF n < 10 THEN Digit(n) ELSE Decimal(n \div 10) \o Digit(n % 10)

\* str(x) for the values the code formats: None, numbers and strings.
PyStr(x) ==
    CASE x.t = "null" -> "None"
      [] x.t = "num" -> Decimal(x.n)
      [] x.t = "bool" -> (IF x.b THEN "True" ELSE "False")
      [] OTHER -> x.s

\* x[:5] of a list
\* FirstFive without the cut.
FirstFiveUncut(l) == l

\* x[:5]
FirstFive(l) == SubSeq(l, 1, IF Len(l) < 5 THEN Len(l) ELSE 5)

\* s.split(sep, 1)[1]: what follows the first sep in s (sep occurs in s).
AfterFirst(s, sep) == SubSeq(s, Find(s, sep, 1) + Len(sep), Len(s))

\* The lines l of text.split('\n') with l.strip() non-empty, stripped or
\* not as the caller needs.
NonBlank(ls) == SelectSeq(ls, LAMBDA l : Strip(l) # "")

-----------------------------------------------------------------------------
(* The LedFX adapters: one curl call each, two for the audio device.       *)

LedfxCaught == {"TimeoutExpired", "JSONDecodeError", "SubprocessError"}

\* The body of an adapter's try block for one curl outcome: subprocess.run
\* raising, a non-zero exit falling through to the default, json.loads
\* raising, else shaped, what the adapter makes of the parsed data.
CurlJson(o, default, shaped) ==
    CASE RunRaises(o) # "none" -> Raise(RunRaises(o))
      [] o.kind # "exit0" -> Return(default)
      [] json_loads(o.stdout) = JInvalid -> Raise("JSONDecodeError")
      [] OTHER -> shaped

InfoUnavailable == [connected |-> FALSE, version |-> JNull, data |-> JNull]

get_ledfx_info(o) ==
    LET Shape(info) ==
            IF info.t # "dict" THEN Raise("AttributeError")
            ELSE Return([connected |-> TRUE,
                         version |-> Get(info, "version", JStr("unknown")),
                         data |-> info])
    IN  Try(CurlJson(o, InfoUnavailable, Shape(json_loads(o.stdout))), LedfxCaught, InfoUnavailable)

VirtualsUnavailable == [connected |-> FALSE, virtuals |-> <<>>, paused |-> JBool(FALSE)]

\* One entry of the virtuals dict.
Virtual(vdata, data) ==
    [active |-> Get(vdata, "active", JBool(FALSE)),
     streaming |-> Get(vdata, "streaming", JBool(FALSE)),
     effect |-> IF Get(vdata, "effect", JNull).t = "dict"
                THEN Get(Get(vdata, "effect", JNull), "type", JStr("none"))
                ELSE JStr("none"),
     paused |-> Get(data, "paused", JBool(FALSE))]

get_ledfx_virtuals(o) ==
    LET Shape(data) ==
            LET vs == data.d["virtuals"]
            IN  CASE KeyTestRaises("virtuals", data) # "none" ->
                        Raise(KeyTestRaises("virtuals", data))
                  [] data.t # "dict" -> Raise("AttributeError")
                  [] "virtuals" \notin DOMAIN data.d ->
                        Return([connected |-> TRUE, virtuals |-> <<>>,
                                paused |-> Get(data, "paused", JBool(FALSE))])
                  [] vs.t # "dict" -> Raise("AttributeError")
                  [] \E vid \in DOMAIN vs.d : vs.d[vid].t # "dict" ->
                        Raise("AttributeError")
                  [] OTHER ->
                        Return([connected |-> TRUE,
                                virtuals |-> [vid \in DOMAIN vs.d |-> Virtual(vs.d[vid], data)],
                                paused |-> Get(data, "paused", JBool(FALSE))])
    IN  Try(CurlJson(o, VirtualsUnavailable, Shape(json_loads(o.stdout))), LedfxCaught, VirtualsUnavailable)

DevicesUnavailable == [connected |-> FALSE, devices |-> <<>>]

get_ledfx_devices(o) ==
    LET Shape(data) ==
            LET ds == data.d["devices"]
            IN  CASE KeyTestRaises("devices", data) # "none" ->
                        Raise(KeyTestRaises("devices", data))
                  [] data.t # "dict" \/ "devices" \notin DOMAIN data.d ->
                        Return([connected |-> TRUE, devices |-> <<>>])
                  [] ds.t # "dict" -> Raise("AttributeError")
                  [] \E did \in DOMAIN ds.d : ds.d[did].t # "dict" ->
                        Raise("AttributeError")
                  [] OTHER ->
                        Return([connected |-> TRUE,
                                devices |-> [did \in DOMAIN ds.d |->
                                    [online |-> Get(ds.d[did], "online", JBool(FALSE)),
                                     type |-> Get(ds.d[did], "type", JStr("unknown")),
                                     config |-> Get(ds.d[did], "config", JDict(<<>>))]]])
    IN  Try(CurlJson(o, DevicesUnavailable, Shape(json_loads(o.stdout))), LedfxCaught, DevicesUnavailable)

AudioDeviceUnavailable ==
    [configured_index |-> JNull, configured_device |-> JNull,
     active_index |-> JNull, active_device |-> JNull,
     available_devices |-> JDict(<<>>)]

\* devices_map.get(str(index), f'Unknown (index {index})')
DeviceNameOf(devices_map, index) ==
    Get(devices_map, PyStr(index), JStr("Unknown (index " \o PyStr(index) \o ")"))

\* o_devices is the outcome of the /api/audio/devices call, o_config that
\* of the /api/config call, which is made only after the first parsed.
get_ledfx_audio_device(o_devices, o_config) ==
    LET Config(devices_data, config_data) ==
            LET devices_map == Get(devices_data, "devices", JDict(<<>>))
                active_index == Get(devices_data, "active_device_index", JNull)
                audio_config == Get(config_data, "audio", JDict(<<>>))
                configured_index == Get(audio_config, "audio_device", JNull)
            IN  CASE config_data.t # "dict" -> Raise("AttributeError")
                  [] audio_config.t # "dict" -> Raise("AttributeError")
                  [] devices_map.t # "dict" -> Raise("AttributeError")
                  [] OTHER ->
                        Return([configured_index |-> configured_index,
                                configured_device |-> DeviceNameOf(devices_map, configured_index),
                                active_index |-> active_index,
                                active_device |-> IF active_index # JNull
                                                  THEN DeviceNameOf(devices_map, active_index)
                                                  ELSE JNull,
                                available_devices |-> devices_map])
        Devices(devices_data) ==
            IF devices_data.t # "dict" THEN Raise("AttributeError")
            ELSE CurlJson(o_config, AudioDeviceUnavailable,
                          Config(devices_data, json_loads(o_config.stdout)))
    IN  Try(CurlJson(o_devices, AudioDeviceUnavailable,
                     Devices(json_loads(o_devices.stdout))),
            LedfxCaught, AudioDeviceUnavailable)

\* The seconds get_ledfx_audio_device spends: the second call is made only
\* when the first exited 0 with a JSON object.
AudioDeviceCost(o_devices, o_config) ==
    Cost(o_devices, SubprocessTimeout)
    + IF o_devices.kind = "exit0" /\ json_loads(o_devices.stdout).t = "dict"
      THEN Cost(o_config, SubprocessTimeout) ELSE 0

-----------------------------------------------------------------------------
(* get_diagnostic_warnings.                                                *)

\* NoDiagnostics with the warnings read from the rate limiter.
NoDiagnosticsShared ==
    [warnings |-> JNum(Len(DIAGNOSTIC_RATE_LIMIT[FirstClient])), errors |-> JNum(0),
     warning_messages |-> JList(<<>>), error_messages |-> JList(<<>>)]

NoDiagnostics ==
    [warnings |-> JNum(0), errors |-> JNum(0),
     warning_messages |-> JList(<<>>), error_messages |-> JList(<<>>)]

\* x[:5] of a value read from the payload: lists and strings can be
\* sliced, anything else raises TypeError.
Sliceable(x) == x.t \in {"list", "str"}
SliceFive(x) ==
    IF x.t = "list" THEN JList(FirstFive(x.l)) ELSE JStr(FirstFive(x.s))

\* The messages that follow a tag in the lines of a text, each once, in
\* order of first appearance; other_tag is the tag tested before this one.
RECURSIVE TaggedMessages(_, _, _, _)
TaggedMessages(ls, tag, other_tag, found) ==
    IF ls = <<>> THEN found
    ELSE LET line == Head(ls)
             tagged == Contains(tag, line)
                       /\ (other_tag = "" \/ ~Contains(other_tag, line))
             msg == Strip(AfterFirst(line, tag))
             seen == \E i \in DOMAIN found : found[i] = JStr(msg)
         IN  TaggedMessages(Tail(ls), tag, other_tag,
                IF tagged /\ msg # "" /\ ~seen
                THEN Append(found, JStr(msg)) ELSE found)

\* The number of lines counted for a tag.
TaggedCount(ls, tag, other_tag) ==
    Len(SelectSeq(ls, LAMBDA line :
            Contains(tag, line) /\ (other_tag = "" \/ ~Contains(other_tag, line))))

\* The fallback when the script's stdout is not JSON.
DiagnosticsFromText(text) ==
    LET ls == Split(text, "\n")
    IN  [warnings |-> JNum(TaggedCount(ls, "[WARN]", "")),
         errors |-> JNum(TaggedCount(ls, "[ERROR]", "[WARN]")),
         warning_messages |-> JList(TaggedMessages(ls, "[WARN]", "", <<>>)),
         error_messages |-> JList(TaggedMessages(ls, "[ERROR]", "[WARN]", <<>>))]

get_diagnostic_warnings(o) ==
    LET diagnostic_data == json_loads(o.stdout)
        warning_messages == Get(diagnostic_data, "warning_messages", JList(<<>>))
        error_messages == Get(diagnostic_data, "error_messages", JList(<<>>))
        body ==
            CASE RunRaises(o) # "none" -> Raise(RunRaises(o))
              [] o.kind # "exit0" -> Return(NoDiagnostics)
              [] diagnostic_data = JInvalid -> Return(DiagnosticsFromText(o.stdout))
              [] diagnostic_data.t # "dict" -> Raise("AttributeError")
              [] ~Sliceable(warning_messages) \/ ~Sliceable(error_messages) ->
                    Raise("TypeError")
              [] OTHER ->
                    Return([warnings |-> Get(diagnostic_data, "warnings", JNum(0)),
                            errors |-> Get(diagnostic_data, "errors", JNum(0)),
                            warning_messages |-> SliceFive(warning_messages),
                            error_messages |-> SliceFive(error_messages)])
    IN  Try(body, {"TimeoutExpired", "SubprocessError", "FileNotFoundError"},
            NoDiagnostics)

-----------------------------------------------------------------------------
(* check_container_status.                                                 *)

IsDigit(c) == Len(c) = 1 /\ Contains(c, "0123456789")

\* The character of s at index i, '' past the end.
CharAt(s, i) == IF i <= Len(s) THEN SubSeq(s, i, i) ELSE ""

\* The index after the longest run of digits that starts at i.
RECURSIVE DigitsEnd(_, _)
DigitsEnd(s, i) ==
    IF IsDigit(CharAt(s, i)) THEN DigitsEnd(s, i + 1) ELSE i

\* re.search(r'(\d+\.\d+\.\d+)', s).group(1) from index i on, or None.
RECURSIVE SearchVersion(_, _)
SearchVersion(s, i) ==
    IF i > Len(s) THEN None
    ELSE LET a == DigitsEnd(s, i)
             b == DigitsEnd(s, a + 1)
             c == DigitsEnd(s, b + 1)
         IN  IF a > i /\ CharAt(s, a) = "." /\ b > a + 1
                /\ CharAt(s, b) = "." /\ c > b + 1
             THEN SubSeq(s, i, c - 1)
             ELSE SearchVersion(s, i + 1)

\* o_ps is the outcome of 'docker ps --filter name=^<container_name>$';
\* o_version that of the version query made when the container runs: the
\* /api/info call of get_ledfx_info for ledfx, 'shairport-sync -V' for
\* shairport-sync.  Both version queries sit in a try / except Exception.
check_container_status(container_name, o_ps, o_version) ==
    LET info == get_ledfx_info(o_version)
        version_line == Split(o_version.stdout, "\n")[1]
        match == SearchVersion(version_line, 1)
        version ==
            CASE container_name = "ledfx" ->
                    IF info.exc = "none" /\ info.val.connected
                       /\ Truthy(info.val.version)
                    THEN info.val.version ELSE JNull
              [] container_name = "shairport-sync" ->
                    IF o_version.kind = "exit0" /\ match # None
                    THEN JStr(match) ELSE JNull
              [] OTHER -> JNull
        body ==
            CASE RunRaises(o_ps) # "none" -> Raise(RunRaises(o_ps))
              [] o_ps.kind = "exit0" /\ Contains(container_name, o_ps.stdout) ->
                    Return([running |-> TRUE, version |-> version])
              [] OTHER -> Return([running |-> FALSE, version |-> JNull])
    IN  Try(body, {"TimeoutExpired", "FileNotFoundError", "SubprocessError"},
            [running |-> FALSE, version |-> JNull])

\* Whether check_container_status makes its version query.
QueriesVersion(container_name, o_ps) ==
    /\ o_ps.kind = "exit0"
    /\ Contains(container_name, o_ps.stdout)
    /\ container_name \in {"ledfx", "shairport-sync"}

ContainerCost(container_name, o_ps, o_version) ==
    Cost(o_ps, SubprocessTimeout)
    + IF QueriesVersion(container_name, o_ps)
      THEN Cost(o_version, SubprocessTimeout) ELSE 0

-----------------------------------------------------------------------------
(* get_audio_status.                                                       *)

\* The first line of the 'pactl info' text that holds 'Server String', or
\* None when no line does.
RECURSIVE ServerLine(_)
ServerLine(ls) ==
    IF ls = <<>> THEN None
    ELSE IF Contains("Server String", Head(ls)) THEN Head(ls)
    ELSE ServerLine(Tail(ls))

\* The streaming flag of the second try block: whether some virtual of the
\* /api/virtuals payload is streaming.
StreamingFlag(o) ==
    LET Shape(data) ==
            LET vs == data.d["virtuals"]
            IN  CASE KeyTestRaises("virtuals", data) # "none" ->
                        Raise(KeyTestRaises("virtuals", data))
                  [] data.t # "dict" \/ "virtuals" \notin DOMAIN data.d -> Return(FALSE)
                  [] vs.t # "dict" -> Raise("AttributeError")
                  [] \E vid \in DOMAIN vs.d : vs.d[vid].t # "dict" ->
                        Raise("AttributeError")
                  [] OTHER ->
                        Return(\E vid \in DOMAIN vs.d :
                                  Truthy(Get(vs.d[vid], "streaming", JBool(FALSE))))
    IN  Try(CurlJson(o, FALSE, Shape(json_loads(o.stdout))), LedfxCaught, FALSE)

\* Corked with the stream taken as paused unless the listing says it plays.
CorkedUnlessPlaying(connected, listing) == connected /\ ~Contains("Corked: no", listing)

\* shairport_corked: set inside the branch of a connected Shairport, by the
\* first of the two markers tested.
Corked(connected, listing) == connected /\ Contains("Corked: yes", listing)

\* o_info, o_short and o_list are the outcomes of 'pactl info', 'pactl list
\* sink-inputs short' and 'pactl list sink-inputs' inside the ledfx
\* container, o_virtuals that of the /api/virtuals call.  The return code
\* of the third command is not looked at.
get_audio_status(o_info, o_short, o_list, o_virtuals) ==
    LET server_line == ServerLine(Split(o_info.stdout, "\n"))
        has_server == o_info.kind = "exit0" /\ server_line # None
        reaches_short == o_info.kind = "exit0"
        reaches_list == reaches_short /\ o_short.kind = "exit0"
        listed == reaches_list /\ RunRaises(o_list) = "none"
        connected == listed /\ Contains("Shairport Sync", o_list.stdout)
        first_try ==
            CASE RunRaises(o_info) # "none" -> RunRaises(o_info)
              [] has_server /\ ~Contains(":", server_line) -> "IndexError"
              [] reaches_short /\ RunRaises(o_short) # "none" -> RunRaises(o_short)
              [] reaches_list /\ RunRaises(o_list) # "none" -> RunRaises(o_list)
              [] OTHER -> "none"
        \* the assignments made before the first try block ended
        server_set == has_server /\ Contains(":", server_line)
        pulse ==
            [pulseaudio |->
                [available |-> server_set,
                 server |-> IF server_set
                            THEN JStr(Strip(AfterFirst(server_line, ":")))
                            ELSE JNull],
             shairport_connected |-> connected,
             shairport_corked |-> Corked(connected, o_list.stdout),
             active_streams |-> IF reaches_list /\ (has_server => server_set)
                                THEN Len(NonBlank(Split(o_short.stdout, "\n")))
                                ELSE 0]
        flag == StreamingFlag(o_virtuals)
    IN  IF first_try # "none" /\ ~Catches({"TimeoutExpired", "SubprocessError"}, first_try)
        THEN Raise(first_try)
        ELSE IF flag.exc # "none" THEN Raise(flag.exc)
        ELSE Return([pulseaudio |-> pulse.pulseaudio,
                     shairport_connected |-> pulse.shairport_connected,
                     shairport_corked |-> pulse.shairport_corked,
                     active_streams |-> pulse.active_streams,
                     ledfx_streaming_flag |-> flag.val])

AudioCost(o_info, o_short, o_list, o_virtuals) ==
    LET server_line == ServerLine(Split(o_info.stdout, "\n"))
        reaches_short == o_info.kind = "exit0"
                         /\ (server_line # None => Contains(":", server_line))
        reaches_list == reaches_short /\ o_short.kind = "exit0"
        reaches_curl == /\ o_info.kind # "notfound"
                        /\ (o_info.kind = "exit0" => reaches_short)
                        /\ (reaches_short => o_short.kind # "notfound")
                        /\ (reaches_list => o_list.kind # "notfound")
    IN  Cost(o_info, SubprocessTimeout)
        + (IF reaches_short THEN Cost(o_short, SubprocessTimeout) ELSE 0)
        + (IF reaches_list THEN Cost(o_list, SubprocessTimeout) ELSE 0)
        + (IF reaches_curl THEN Cost(o_virtuals, SubprocessTimeout) ELSE 0)

-----------------------------------------------------------------------------
(* get_airplay_status.                                                     *)

\* The error field.  The message for a device that was not found ends with
\* the join of a set of names, whose order Python does not fix: the model
\* keeps the fixed text and the set of names apart.
AirplayError(text, names) == [text |-> text, names |-> names]
NoError == AirplayError(None, {})

\* str(e) of the FileNotFoundError of a missing docker executable.
DockerMissingText == "[Errno 2] No such file or directory: 'docker'"

Range(s) == {s[i] : i \in DOMAIN s}

\* The status dict before the container is looked at.
AirplayStatus(name, running) ==
    [configured |-> name # "",
     device_name |-> IF name # "" THEN name ELSE None,
     advertising |-> FALSE,
     running |-> running,
     avahi_running |-> running,
     error |-> NoError]

\* The D-Bus check, made when the container runs: every failure of the
\* dbus-send call counts as not connected.
DbusChecked(status, o_dbus) ==
    [dbus_connected |-> o_dbus.kind = "exit0"
                        /\ Contains("org.freedesktop.Avahi", o_dbus.stdout)] @@ status

\* The matching loop over the devices of one browse result; seen is
\* all_found_devices so far.
ScanBrowse(name, o, seen) ==
    IF o.kind = "exit0" /\ o.stdout # ""
    THEN ScanDevices(name, parse_avahi_browse_output(o.stdout), seen)
    ELSE [found |-> FALSE, seen |-> seen]

\* ScanSecond without the loop over the AirPlay 1 result.
ScanSecondSkipped(name, o, first) == first

\* The AirPlay 1 result is looked at only if AirPlay 2 gave no match.
ScanSecond(name, o, first) ==
    IF first.found THEN first ELSE ScanBrowse(name, o, first.seen)

\* The exception of the two avahi-browse calls, made one after the other
\* before either result is parsed.
BrowseRaises(o_raop, o_airplay) ==
    IF RunRaises(o_raop) # "none" THEN RunRaises(o_raop) ELSE RunRaises(o_airplay)

\* The advertisement check of a running container.
Advertisement(status, name, raised, scan) ==
    CASE name = "" ->
            [status EXCEPT !.error = AirplayError("Device name not configured", {})]
      [] raised = "TimeoutExpired" ->
            [status EXCEPT !.error = AirplayError("Avahi browse timed out", {})]
      [] raised # "none" ->
            [status EXCEPT !.error = AirplayError(DockerMissingText, {})]
      [] scan.found -> [status EXCEPT !.advertising = TRUE]
      [] scan.seen # <<>> ->
            [status EXCEPT !.error =
                AirplayError("Device \"" \o name \o "\" not found. Found devices: ",
                             Range(FirstFive(scan.seen)))]
      [] OTHER ->
            [status EXCEPT !.error =
                AirplayError("Device \"" \o name \o "\" not found. No AirPlay devices found on network (avahi-browse returned empty)", {})]

\* name is what get_airplay_name returned; o_ps and o_version are the
\* outcomes inside check_container_status('shairport-sync'), o_dbus that of
\* the dbus-send call, o_raop and o_airplay those of the two avahi-browse
\* calls.
get_airplay_status(name, o_ps, o_version, o_dbus, o_raop, o_airplay) ==
    IF check_container_status("shairport-sync", o_ps, o_version).val.running
    THEN Advertisement(DbusChecked(AirplayStatus(name, TRUE), o_dbus), name,
                       BrowseRaises(o_raop, o_airplay),
                       ScanSecond(name, o_airplay, ScanBrowse(name, o_raop, <<>>)))
    ELSE [AirplayStatus(name, FALSE) EXCEPT !.error =
            AirplayError("Shairport-sync container is not running", {})]

\* The seconds spent by the calls made when the container runs.
BrowseCost(name, o_dbus, o_raop, o_airplay) ==
    Cost(o_dbus, SubprocessTimeout)
    + (IF name # "" THEN Cost(o_raop, SubprocessTimeout) ELSE 0)
    + (IF name # "" /\ RunRaises(o_raop) = "none"
       THEN Cost(o_airplay, SubprocessTimeout) ELSE 0)

\* airplay2_result and airplay1_result as far as the calls were made and
\* returned: none when the container does not run or no name is
\* configured, and the second call is made only if the first returned.
NoBrowse == <<>>

BrowseResults(name, o_ps, o_version, o_raop, o_airplay) ==
    IF check_container_status("shairport-sync", o_ps, o_version).val.running /\ name # ""
    THEN (IF RunRaises(o_raop) = "none" THEN <<o_raop>> ELSE <<>>)
         \o (IF RunRaises(o_raop) = "none" /\ RunRaises(o_airplay) = "none"
             THEN <<o_airplay>> ELSE <<>>)
    ELSE NoBrowse

AirplayCost(name, o_ps, o_version, o_dbus, o_raop, o_airplay) ==
    ContainerCost("shairport-sync", o_ps, o_version)
    + IF check_container_status("shairport-sync", o_ps, o_version).val.running
      THEN BrowseCost(name, o_dbus, o_raop, o_airplay) ELSE 0

-----------------------------------------------------------------------------
(* The sources one status request probes.                                  *)

\* The condition of an executable and of the service behind it during one
\* request: "up" answers with exit code 0, "down" exits non-zero (the
\* docker daemon or the LedFX API refuses), "hang" runs into the timeout,
\* "missing" cannot be spawned.  What an answering command prints is drawn
\* anew for every call.
Conditions == {"up", "down", "hang", "missing"}

\* The outcomes of a command under a condition, texts being what it may
\* print.
Spawn(cond, texts) ==
    CASE cond = "up" -> {Ok(t) : t \in texts}
      [] cond = "down" -> {NonZero}
      [] cond = "hang" -> {TimedOut}
      [] OTHER -> {NotFound}

\* The containers 'docker ps' may list.
RunningSets == { <<"airglow-web", "ledfx", "shairport-sync">>,
                 <<"airglow-web", "ledfx">> }

\* The AirPlay names shairport-sync.conf may configure.
StatusNames == {"Living Room"}

Envs ==
    {e \in [docker : Conditions, curl : Conditions,
            running : RunningSets, name : StatusNames] :
        e.docker # "up" => e.running = <<"airglow-web", "ledfx">>}

\* 'docker exec <container> ...': docker itself exits non-zero when the
\* container does not run.
Exec(e, container, texts) ==
    IF e.docker = "up" /\ container \notin Range(e.running)
    THEN {NonZero} ELSE Spawn(e.docker, texts)

\* What the spawned programs may print.
InfoTexts == {InfoJson, ListJson, HtmlText}
AudioDevicesTexts == {AudioDevicesJson, ListJson, HtmlText}
ConfigTexts == {ConfigJson, ListJson, HtmlText}
VirtualsTexts == {VirtualsJson, VirtualsListJson, ListJson, HtmlText}
DevicesTexts == {DevicesJson, ListJson, NullJson, HtmlText}
DiagTexts == {DiagJson, DiagText, ListJson}
VersionTexts == {"4.3.2-OpenSSL-Avahi-ALSA-pa-soxr-metadata-sysconfdir:/etc\n"}
PactlInfoTexts == {"Server String: /tmp/pulse/native\nServer Name: pulseaudio\n",
                   "Server String /tmp/pulse/native\n"}
SinkShortTexts == {"7\t0\t12\tprotocol-native.c\ts16le 2ch 44100Hz\n"}
SinkListTexts ==
    {"",
     "Sink Input #7\n\tCorked: no\n\t\tapplication.name = \"Shairport Sync\"\n",
     "Sink Input #7\n\tCorked: yes\n\t\tapplication.name = \"Shairport Sync\"\n"}
DbusTexts == {"   array [\n      string \"org.freedesktop.DBus\"\n      string \"org.freedesktop.Avahi\"\n   ]\n",
              "   array [\n      string \"org.freedesktop.DBus\"\n   ]\n"}
RaopTexts ==
    {"=;eth0;IPv4;D6BF5E\\064Living\\032Room;_raop._tcp;local;livingroom.local;192.168.2.10;7000;\"fv=1.2\"\n",
     "=;eth0;IPv4;D6BF5E\\064Speaker;_raop._tcp;local;speaker.local;192.168.2.11;7000;\n"}
AirplayTexts ==
    {"",
     "=;eth0;IPv4;AA\\064TV;_airplay._tcp;local;tv.local;192.168.2.12;7000;\"fv=2.0\"\n",
     "=;eth0;IPv4;AA\\064Living\\126Room;_airplay._tcp;local;lr.local;192.168.2.10;7000;\n"}

\* 'docker ps --format {{.Names}}': one name per line.
Listing(names) == Join(names, "\n") \o "\n"

PsOutcomes(e) == Spawn(e.docker, {Listing(e.running)})

\* 'docker ps --filter name=^<container>$': the name when it runs.
FilterOutcomes(e, container) ==
    Spawn(e.docker, {IF container \in Range(e.running) THEN container \o "\n" ELSE ""})

VersionOutcomes(e, container) ==
    IF container = "ledfx" THEN Spawn(e.curl, InfoTexts)
    ELSE Exec(e, container, VersionTexts)

DiagOutcomes == {NonZero, TimedOut, NotFound} \cup {Ok(t) : t \in DiagTexts}

\* 'pactl info' also exits non-zero when the PulseAudio server refuses.
PactlInfoOutcomes(e) ==
    Exec(e, "ledfx", PactlInfoTexts) \cup (IF e.docker = "up" THEN {NonZero} ELSE {})

\* avahi-browse may also hang on its own.
BrowseOutcomes(e, texts) ==
    Exec(e, "shairport-sync", texts) \cup (IF e.docker = "up" THEN {TimedOut} ELSE {})

-----------------------------------------------------------------------------
(* status(): the aggregator, one adapter after the other.                  *)

KnownContainers == <<"avahi", "ledfx", "shairport-sync">>

\* The names status() checks one by one: those of the listing other than
\* airglow-web when 'docker ps' exited 0, none when it exited non-zero,
\* the known containers when subprocess.run raised.
NamesToCheck(o) ==
    CASE RunRaises(o) # "none" -> KnownContainers
      [] o.kind = "exit0" ->
            SelectSeq(NonBlank([i \in DOMAIN Split(o.stdout, "\n") |->
                                    Strip(Split(o.stdout, "\n")[i])]),
                      LAMBDA n : n # "airglow-web")
      [] OTHER -> <<>>

\* container_data after the loop over names; probe[name] is the pair of
\* outcomes inside check_container_status(name).
ContainerData(names, probe) ==
    [key \in {Replace(n, "-", "_") : n \in Range(names)} |->
        LET container_name == CHOOSE n \in Range(names) : Replace(n, "-", "_") = key
            checked == check_container_status(container_name,
                                              probe[container_name][1],
                                              probe[container_name][2]).val
        IN  [running |-> checked.running,
             version |-> checked.version,
             container_name |-> container_name]]

\* The container block with the guard left out: a non-zero exit raises, as
\* subprocess.run(check=True) would, and nothing catches it.
QueryContainersUnguarded(o, probe) ==
    IF o.kind = "nonzero" THEN Raise("CalledProcessError")
    ELSE Return(ContainerData(NamesToCheck(o), probe))

\* The container block of status(): its except Exception turns every
\* failure of the listing into the check of the known containers, and
\* check_container_status does not raise.
QueryContainers(o, probe) == Return(ContainerData(NamesToCheck(o), probe))

RECURSIVE ContainersCost(_, _)
ContainersCost(names, probe) ==
    IF names = <<>> THEN 0
    ELSE ContainerCost(Head(names), probe[Head(names)][1], probe[Head(names)][2])
         + ContainersCost(Tail(names), probe)

\* The sources before any request has looked at them.
IdleEnv == [docker |-> "up", curl |-> "up",
            running |-> <<"airglow-web", "ledfx">>, name |-> "Living Room"]

NoCall == [adapter |-> "", exc |-> "none", missing |-> FALSE]
NoResponse == [code |-> 0, body |-> <<>>]

\* No request has been read.
NoRequest == <<>>

\* HOOKS_YAML has not been written.
NoFile == <<>>

\* No audit of the requests: nothing is observed and nothing kept.
NoAudit == [on |-> FALSE, kept |-> <<>>]

\* The outcomes of the request so far, followed by those of a call.
Observe(run) == IF audit.on THEN observed \o run ELSE observed

\* The last adapter call: the exception it ended in, and whether one of
\* the commands of the call could not be spawned.
Called(adapter, r, run) ==
    [adapter |-> adapter, exc |-> r.exc,
     missing |-> r.exc # "none" /\ \E i \in DOMAIN run : run[i].kind = "notfound"]

\* A request arrives: the sources are in some condition.
BeginWith(envs) ==
    /\ spc = "idle"
    /\ env' \in envs
    /\ spc' = "containers"
    /\ container_data' = <<>>
    /\ diagnostics' = <<>>
    /\ airplay_status' = <<>>
    /\ browsed' = NoBrowse
    /\ status_data' = <<>>
    /\ response' = NoResponse
    /\ elapsed' = 0
    /\ call' = NoCall
    /\ observed' = <<>>
    /\ UNCHANGED <<browseVars, limiterVars, configVars, audit>>

StatusBegin == BeginWith(Envs)

\* An exception that leaves status() is answered by Flask with status 500.
Fail ==
    /\ spc' = "failed"
    /\ response' = [code |-> 500, body |-> <<>>]

StatusContainers ==
    /\ spc = "containers"
    /\ \E o \in PsOutcomes(env),
          pa \in FilterOutcomes(env, "avahi"),
          pl \in FilterOutcomes(env, "ledfx"),
          vl \in VersionOutcomes(env, "ledfx"),
          ps \in FilterOutcomes(env, "shairport-sync"),
          vs \in VersionOutcomes(env, "shairport-sync") :
          LET probe == [c \in Range(KnownContainers) |->
                          CASE c = "avahi" -> <<pa, pa>>
                            [] c = "ledfx" -> <<pl, vl>>
                            [] OTHER -> <<ps, vs>>]
              r == QueryContainers(o, probe)
          IN  /\ call' = Called("containers", r, <<o>>)
              /\ elapsed' = elapsed + Cost(o, SubprocessTimeout)
                                    + ContainersCost(NamesToCheck(o), probe)
              /\ observed' = Observe(<<o, pa, pl, vl, ps, vs>>)
              /\ IF r.exc # "none"
                 THEN Fail /\ UNCHANGED container_data
                 ELSE /\ container_data' = r.val
                      /\ spc' = "diagnostics"
                      /\ UNCHANGED response
    /\ UNCHANGED <<env, diagnostics, airplay_status, browsed, status_data, browseVars,
                   limiterVars, configVars, audit>>

\* get_diagnostic_warnings inside try / except Exception.
StatusDiagnostics ==
    /\ spc = "diagnostics"
    /\ \E o \in DiagOutcomes :
          LET r == get_diagnostic_warnings(o)
          IN  /\ call' = Called("get_diagnostic_warnings", r, <<o>>)
              /\ diagnostics' = IF r.exc # "none" THEN NoDiagnostics ELSE r.val
              /\ elapsed' = elapsed + Cost(o, DiagnosticTimeout)
              /\ observed' = Observe(<<o>>)
    /\ spc' = "airplay"
    /\ UNCHANGED <<env, container_data, airplay_status, browsed, status_data, response,
                   browseVars, limiterVars, configVars, audit>>

\* get_airplay_status inside try / except Exception.
StatusAirplay ==
    /\ spc = "airplay"
    /\ \E o_ps \in FilterOutcomes(env, "shairport-sync"),
          o_version \in VersionOutcomes(env, "shairport-sync"),
          o_dbus \in Exec(env, "shairport-sync", DbusTexts),
          o_raop \in BrowseOutcomes(env, RaopTexts),
          o_airplay \in BrowseOutcomes(env, AirplayTexts) :
          /\ airplay_status' =
                get_airplay_status(env.name, o_ps, o_version, o_dbus, o_raop, o_airplay)
          /\ browsed' = BrowseResults(env.name, o_ps, o_version, o_raop, o_airplay)
          /\ elapsed' = elapsed
                + AirplayCost(env.name, o_ps, o_version, o_dbus, o_raop, o_airplay)
          /\ observed' = Observe(<<Ok(env.name), o_ps, o_version, o_dbus, o_raop, o_airplay>>)
    /\ call' = [adapter |-> "get_airplay_status", exc |-> "none", missing |-> FALSE]
    /\ spc' = "ledfx"
    /\ UNCHANGED <<env, container_data, diagnostics, status_data, response, browseVars,
                   limiterVars, configVars, audit>>

\* One entry of the status_data literal: the adapter is called outside any
\* try block, so its exception leaves status().
Entry(key, adapter, r, run, cost, next) ==
    /\ call' = Called(adapter, r, run)
    /\ elapsed' = elapsed + cost
    /\ observed' = Observe(run)
    /\ IF r.exc # "none"
       THEN Fail /\ UNCHANGED status_data
       ELSE /\ status_data' = (key :> r.val) @@ status_data
            /\ spc' = next
            /\ UNCHANGED response
    /\ UNCHANGED <<env, container_data, diagnostics, airplay_status, browsed, browseVars,
                   limiterVars, configVars, audit>>

StatusLedfx ==
    /\ spc = "ledfx"
    /\ \E o \in Spawn(env.curl, InfoTexts) :
          Entry("ledfx", "get_ledfx_info", get_ledfx_info(o), <<o>>,
                Cost(o, SubprocessTimeout), "ledfx_audio_device")

StatusAudioDevice ==
    /\ spc = "ledfx_audio_device"
    /\ \E o_devices \in Spawn(env.curl, AudioDevicesTexts),
          o_config \in Spawn(env.curl, ConfigTexts) :
          Entry("ledfx_audio_device", "get_ledfx_audio_device",
                get_ledfx_audio_device(o_devices, o_config), <<o_devices, o_config>>,
                AudioDeviceCost(o_devices, o_config), "virtuals")

StatusVirtuals ==
    /\ spc = "virtuals"
    /\ \E o \in Spawn(env.curl, VirtualsTexts) :
          Entry("virtuals", "get_ledfx_virtuals", get_ledfx_virtuals(o), <<o>>,
                Cost(o, SubprocessTimeout), "devices")

StatusDevices ==
    /\ spc = "devices"
    /\ \E o \in Spawn(env.curl, DevicesTexts) :
          Entry("devices", "get_ledfx_devices", get_ledfx_devices(o), <<o>>,
                Cost(o, SubprocessTimeout), "audio")

StatusAudio ==
    /\ spc = "audio"
    /\ \E o_info \in PactlInfoOutcomes(env),
          o_short \in Exec(env, "ledfx", SinkShortTexts),
          o_list \in Exec(env, "ledfx", SinkListTexts),
          o_virtuals \in Spawn(env.curl, VirtualsTexts) :
          Entry("audio", "get_audio_status",
                get_audio_status(o_info, o_short, o_list, o_virtuals),
                <<o_info, o_short, o_list, o_virtuals>>,
                AudioCost(o_info, o_short, o_list, o_virtuals), "respond")

\* jsonify(status_data)
StatusRespond ==
    /\ spc = "respond"
    /\ response' = [code |-> 200,
                    body |-> [containers |-> container_data,
                              airplay |-> airplay_status,
                              diagnostics |-> diagnostics] @@ status_data]
    /\ spc' = "done"
    /\ UNCHANGED <<env, container_data, diagnostics, airplay_status, browsed, status_data,
                   elapsed, call, browseVars, limiterVars, configVars, observed, audit>>

StatusInit ==
    /\ spc = "idle"
    /\ env = IdleEnv
    /\ container_data = <<>>
    /\ diagnostics = <<>>
    /\ airplay_status = <<>>
    /\ browsed = NoBrowse
    /\ status_data = <<>>
    /\ response = NoResponse
    /\ elapsed = 0
    /\ call = NoCall
    /\ DIAGNOSTIC_RATE_LIMIT = NoRequests
    /\ clock = 0
    /\ handled = NoRequests
    /\ workers = NoWorkers
    /\ observed = <<>>
    /\ audit = NoAudit
    /\ request = NoRequest
    /\ hooks_yaml = NoFile
    /\ bpc = "off"
    /\ output = ""
    /\ lines = <<>>
    /\ cursor = 1
    /\ device_map = <<>>
    /\ devices = <<>>
    /\ device_name = ""
    /\ found_device = FALSE
    /\ all_found_devices = <<>>

StatusNext ==
    \/ StatusBegin
    \/ StatusContainers
    \/ StatusDiagnostics
    \/ StatusAirplay
    \/ StatusLedfx
    \/ StatusAudioDevice
    \/ StatusVirtuals
    \/ StatusDevices
    \/ StatusAudio
    \/ StatusRespond

SpecStatus == StatusInit /\ [][StatusNext]_vars

-----------------------------------------------------------------------------
(* One adapter called on its own: the variables of status() at rest, the  *)
(* position naming the adapter about to be called.                         *)

AdapterInit(position, envs) ==
    /\ spc = position
    /\ env \in envs
    /\ container_data = <<>>
    /\ diagnostics = <<>>
    /\ airplay_status = <<>>
    /\ browsed = NoBrowse
    /\ status_data = <<>>
    /\ response = NoResponse
    /\ elapsed = 0
    /\ call = NoCall
    /\ DIAGNOSTIC_RATE_LIMIT = NoRequests
    /\ clock = 0
    /\ handled = NoRequests
    /\ workers = NoWorkers
    /\ observed = <<>>
    /\ audit = NoAudit
    /\ request = NoRequest
    /\ hooks_yaml = NoFile
    /\ bpc = "off"
    /\ output = ""
    /\ lines = <<>>
    /\ cursor = 1
    /\ device_map = <<>>
    /\ devices = <<>>
    /\ device_name = ""
    /\ found_device = FALSE
    /\ all_found_devices = <<>>

\* The outcomes of a command whatever the condition of its executable.
AnyOutcome(texts) == {Ok(t) : t \in texts} \cup {NonZero, TimedOut, NotFound}

-----------------------------------------------------------------------------
(* Requests one after the other: /api/status and /api/diagnose, whose      *)
(* decorator rate_limit_diagnose keeps the only module-level state that    *)
(* the handlers change.                                                    *)

RATE_LIMIT_WINDOW == 60
RATE_LIMIT_MAX_REQUESTS == 5

\* Kept with every request time kept, however old.
KeptForever(times, current_time) == times

\* The request times younger than the window at current_time.
Kept(times, current_time) ==
    SelectSeq(times, LAMBDA req_time : current_time - req_time < RATE_LIMIT_WINDOW)

\* The check of the limit on the cleaned list.
LimitReached(times) == Len(times) >= RATE_LIMIT_MAX_REQUESTS

\* The outcomes of 'bash /scripts/diagnose-airglow.sh'.
ScriptOutcomes == {Ok(DiagText), NonZero, TimedOut, NotFound}

DiagnoseBody(success, out, error, returncode) ==
    [success |-> success, output |-> out, error |-> error, returncode |-> returncode]

\* The answer of a request the limiter turned away.
RateLimited ==
    [code |-> 429,
     body |-> DiagnoseBody(FALSE, "",
                 "Rate limit exceeded. Please wait before running diagnostics again.", 429)]

\* diagnose(): exists is os.path.exists(script_path), o the outcome of the
\* script; what the script writes to stderr is taken to be empty.
diagnose(exists, o) ==
    CASE ~exists ->
            [code |-> 500, body |-> DiagnoseBody(FALSE, "", "Diagnostic script not found", -1)]
      [] o.kind = "timeout" ->
            [code |-> 500, body |-> DiagnoseBody(FALSE, "", "Diagnostic check timed out", -1)]
      [] o.kind = "notfound" ->
            [code |-> 500,
             body |-> DiagnoseBody(FALSE, "", "An error occurred while running diagnostics", -1)]
      [] OTHER ->
            [code |-> 200,
             body |-> DiagnoseBody(o.kind = "exit0", o.stdout, "",
                                   IF o.kind = "exit0" THEN 0 ELSE 1)]

\* A request of the first client to /api/diagnose between two status
\* requests, handled in one piece: the request times of the client older
\* than the window are dropped; the request is turned away when
\* RATE_LIMIT_MAX_REQUESTS remain, and is recorded and handled otherwise.
Diagnose ==
    /\ spc = "idle"
    /\ \E exists \in BOOLEAN, o \in ScriptOutcomes :
          LET client_id == FirstClient
              recent == Kept(DIAGNOSTIC_RATE_LIMIT[client_id], clock)
          IN  IF LimitReached(recent)
              THEN /\ DIAGNOSTIC_RATE_LIMIT' = [DIAGNOSTIC_RATE_LIMIT EXCEPT ![client_id] = recent]
                   /\ response' = RateLimited
                   /\ UNCHANGED handled
              ELSE /\ DIAGNOSTIC_RATE_LIMIT' =
                         [DIAGNOSTIC_RATE_LIMIT EXCEPT ![client_id] = Append(recent, clock)]
                   /\ response' = diagnose(exists, o)
                   /\ handled' = [handled EXCEPT ![client_id] = Append(@, clock)]
    /\ UNCHANGED <<spc, env, container_data, diagnostics, airplay_status, browsed,
                   status_data, elapsed, call, observed, audit, browseVars, configVars,
                   clock, workers>>

\* status() has returned or raised: its local variables are gone and the
\* server waits for the next request.  The audit keeps one answered
\* request, the outcomes it observed and the response it got.
StatusReturn ==
    /\ spc \in {"done", "failed"}
    /\ audit.on
    /\ \/ UNCHANGED audit
       \/ /\ audit.kept = <<>>
          /\ audit' = [audit EXCEPT
                          !.kept = <<[observed |-> observed, response |-> response]>>]
    /\ spc' = "idle"
    /\ env' = IdleEnv
    /\ container_data' = <<>>
    /\ diagnostics' = <<>>
    /\ airplay_status' = <<>>
    /\ browsed' = NoBrowse
    /\ status_data' = <<>>
    /\ response' = NoResponse
    /\ elapsed' = 0
    /\ call' = NoCall
    /\ observed' = <<>>
    /\ UNCHANGED <<limiterVars, configVars, browseVars>>

\* The conditions of the sources the audited requests meet: those under
\* which the LedFX API does not answer, docker answering only without the
\* curl executable and with shairport-sync stopped.
RequestEnvs ==
    {e \in Envs :
        /\ e.curl # "up"
        /\ e.docker = "up" => e.curl = "missing" /\ Len(e.running) = 2}

RequestBegin == BeginWith(RequestEnvs)

RequestsInit ==
    /\ spc = "idle"
    /\ env = IdleEnv
    /\ container_data = <<>>
    /\ diagnostics = <<>>
    /\ airplay_status = <<>>
    /\ browsed = NoBrowse
    /\ status_data = <<>>
    /\ response = NoResponse
    /\ elapsed = 0
    /\ call = NoCall
    /\ DIAGNOSTIC_RATE_LIMIT = NoRequests
    /\ clock = 0
    /\ handled = NoRequests
    /\ workers = NoWorkers
    /\ observed = <<>>
    /\ audit = [on |-> TRUE, kept |-> <<>>]
    /\ request = NoRequest
    /\ hooks_yaml = NoFile
    /\ bpc = "off"
    /\ output = ""
    /\ lines = <<>>
    /\ cursor = 1
    /\ device_map = <<>>
    /\ devices = <<>>
    /\ device_name = ""
    /\ found_device = FALSE
    /\ all_found_devices = <<>>

RequestsNext ==
    \/ RequestBegin
    \/ StatusContainers
    \/ StatusDiagnostics
    \/ StatusAirplay
    \/ StatusLedfx
    \/ StatusAudioDevice
    \/ StatusVirtuals
    \/ StatusDevices
    \/ StatusAudio
    \/ StatusRespond
    \/ StatusReturn
    \/ Diagnose

SpecRequests == RequestsInit /\ [][RequestsNext]_vars

-----------------------------------------------------------------------------
(* rate_limit_diagnose step by step, one server thread per request: the   *)
(* thread reads the client and the time, cleans the client's list, checks  *)
(* the limit, appends its time, and calls diagnose().                      *)

LimiterInit == AdapterInit("diagnose", {IdleEnv})

statusLocals == <<spc, env, container_data, diagnostics, airplay_status, browsed,
                  status_data, elapsed, call, observed, audit>>

\* The position of thread w becomes pc.
At(w, pc) == [workers EXCEPT ![w].pc = pc]

\* The earliest time a request can still carry: the time now, or the time
\* read by a request that is being handled.
EarliestTime(now) ==
    LET carried == {now} \cup {workers[w].current_time :
                                  w \in {v \in Workers : workers[v].pc # "idle"}}
    IN  CHOOSE t \in carried : \A u \in carried : t <= u

\* The calls that a window ending at time since or later can still hold.
StillInWindow(times, since) ==
    SelectSeq(times, LAMBDA t : since - t < RATE_LIMIT_WINDOW)

\* A request of one of the clients reaches an idle thread; alone says that
\* the server takes a request only when no other is being handled.
Arrive(w, clients, alone) ==
    /\ workers[w].pc = "idle"
    /\ alone => \A v \in Workers : workers[v].pc = "idle"
    /\ \E client_id \in clients :
          /\ Len(StillInWindow(handled[client_id], clock)) < MaxAdmitted
          /\ workers' = [workers EXCEPT ![w] =
                        [pc |-> "clean", client_id |-> client_id, current_time |-> clock,
                         kept |-> <<>>]]
    /\ UNCHANGED <<DIAGNOSTIC_RATE_LIMIT, clock, handled, response, statusLocals,
                   configVars, browseVars>>

\* Clean old entries: the list comprehension over the list kept for the
\* client.
Clean(w) ==
    /\ workers[w].pc = "clean"
    /\ workers' = [workers EXCEPT
                      ![w].pc = "store",
                      ![w].kept = Kept(DIAGNOSTIC_RATE_LIMIT[workers[w].client_id],
                                       workers[w].current_time)]
    /\ UNCHANGED <<DIAGNOSTIC_RATE_LIMIT, clock, handled, response, statusLocals,
                   configVars, browseVars>>

\* Clean old entries: the assignment of the new list to the map.
Store(w) ==
    /\ workers[w].pc = "store"
    /\ DIAGNOSTIC_RATE_LIMIT' =
          [DIAGNOSTIC_RATE_LIMIT EXCEPT ![workers[w].client_id] = workers[w].kept]
    /\ workers' = [workers EXCEPT ![w].pc = "check", ![w].kept = <<>>]
    /\ UNCHANGED <<clock, handled, response, statusLocals, configVars, browseVars>>

\* Check rate limit: the request is answered 429 when the limit is reached.
Check(w) ==
    /\ workers[w].pc = "check"
    /\ IF LimitReached(DIAGNOSTIC_RATE_LIMIT[workers[w].client_id])
       THEN /\ response' = RateLimited
            /\ workers' = [workers EXCEPT ![w] = IdleWorker]
       ELSE /\ workers' = At(w, "append")
            /\ UNCHANGED response
    /\ UNCHANGED <<DIAGNOSTIC_RATE_LIMIT, clock, handled, statusLocals, configVars, browseVars>>

\* Add current request.
AppendTime(w) ==
    /\ workers[w].pc = "append"
    /\ DIAGNOSTIC_RATE_LIMIT' =
          [DIAGNOSTIC_RATE_LIMIT EXCEPT ![workers[w].client_id] =
              Append(@, workers[w].current_time)]
    /\ workers' = At(w, "handler")
    /\ UNCHANGED <<clock, handled, response, statusLocals, configVars, browseVars>>

\* return f(*args, **kwargs): diagnose() runs and answers; the script is
\* taken to be there and to run to its end.
Handle(w) ==
    /\ workers[w].pc = "handler"
    /\ response' = diagnose(TRUE, Ok(DiagText))
    /\ handled' = [handled EXCEPT ![workers[w].client_id] = Append(@, workers[w].current_time)]
    /\ workers' = [workers EXCEPT ![w] = IdleWorker]
    /\ UNCHANGED <<DIAGNOSTIC_RATE_LIMIT, clock, statusLocals, configVars, browseVars>>

\* time() advances by half a window; the calls that no window of a present
\* or later request can hold are forgotten.
Tick ==
    /\ clock < MaxTicks * (RATE_LIMIT_WINDOW \div 2)
    /\ clock' = clock + RATE_LIMIT_WINDOW \div 2
    /\ handled' = [client \in Clients |->
                      StillInWindow(handled[client], EarliestTime(clock'))]
    /\ UNCHANGED <<DIAGNOSTIC_RATE_LIMIT, workers, response, statusLocals, configVars,
                   browseVars>>

\* Requests of the clients handled one after another.
LimiterNext ==
    \/ \E w \in Workers : Arrive(w, Clients, TRUE)
    \/ \E w \in Workers : Clean(w)
    \/ \E w \in Workers : Store(w)
    \/ \E w \in Workers : Check(w)
    \/ \E w \in Workers : AppendTime(w)
    \/ \E w \in Workers : Handle(w)
    \/ Tick

SpecLimiter == LimiterInit /\ [][LimiterNext]_vars

\* Requests of one client handled at the same time by the threads of the
\* server (app.run serves each request in a thread of its own).
ThreadsNext ==
    \/ \E w \in Workers : Arrive(w, {FirstClient}, FALSE)
    \/ \E w \in Workers : Clean(w)
    \/ \E w \in Workers : Store(w)
    \/ \E w \in Workers : Check(w)
    \/ \E w \in Workers : AppendTime(w)
    \/ \E w \in Workers : Handle(w)
    \/ Tick

SpecThreads == LimiterInit /\ [][ThreadsNext]_vars

-----------------------------------------------------------------------------
(* The browse outputs and configured names the model draws from.           *)

BrowseLines ==
    { "=;eth0;IPv4;D6BF5E\\064Living\\032Room;_raop._tcp;local;livingroom.local;192.168.2.10;7000;\"fv=1.2\"",
      "=;eth0;IPv6;D6BF5E\\064Living\\032Room;_raop._tcp;local;livingroom.local;fe80::1;7000;\"ft=0x4A\"",
      "=;docker0;IPv4;D6BF5E\\064Speaker;_raop._tcp;local;LivingRoom.local;172.17.0.2;7001;",
      "=;eth0;IPv6;D6BF5E\\064Living\\032Room;_raop._tcp;local;livingroom.local;192.168.2.10;7000;",
      "=;wlan0;IPv4;Living\\126Room;_raop._tcp;local;;10.0.0.7;7000;\"fv=3.0\"",
      "=;eth0;IPv4;AA\\064TV;_airplay._tcp;local;tv.local;;7000;\"fv=2.0\" \"ft=0x1\"",
      "=;eth0;IPv4;TV.local;_airplay._tcp;local;;;7000;",
      "+;eth0;IPv4;AA\\064TV;_airplay._tcp;local",
      "=;eth0;IPv4;short" }

RECURSIVE SeqsUpTo(_, _)
SeqsUpTo(S, n) ==
    IF n = 0 THEN {<<>>}
    ELSE LET shorter == SeqsUpTo(S, n - 1)
         IN  shorter \cup {Append(q, x) : q \in shorter, x \in S}

\* The stdout texts of a browse: up to MaxLines lines, one per line.
BrowseOutputs == {Join(q, "\n") : q \in SeqsUpTo(BrowseLines, MaxLines)}

ConfiguredNames == {"Living Room", "living~room", "Speaker", "Audio"}

-----------------------------------------------------------------------------
(* One browse check: parse_avahi_browse_output on one output, line by      *)
(* line, then the matching loop of get_airplay_status over its result.     *)

BrowseInit ==
    /\ bpc = "start"
    /\ output \in BrowseOutputs
    /\ lines = <<>>
    /\ cursor = 1
    /\ device_map = <<>>
    /\ devices = <<>>
    /\ device_name = ""
    /\ found_device = FALSE
    /\ all_found_devices = <<>>
    /\ spc = "off"
    /\ env = IdleEnv
    /\ container_data = <<>>
    /\ diagnostics = <<>>
    /\ airplay_status = <<>>
    /\ browsed = NoBrowse
    /\ status_data = <<>>
    /\ response = NoResponse
    /\ elapsed = 0
    /\ call = NoCall
    /\ DIAGNOSTIC_RATE_LIMIT = NoRequests
    /\ clock = 0
    /\ handled = NoRequests
    /\ workers = NoWorkers
    /\ observed = <<>>
    /\ audit = NoAudit
    /\ request = NoRequest
    /\ hooks_yaml = NoFile

\* The early return on an empty or blank output, else the split in lines.
ParseBegin ==
    /\ bpc = "start"
    /\ IF output = "" \/ Strip(output) = ""
       THEN /\ bpc' = "parsed"
            /\ lines' = lines
       ELSE /\ bpc' = "lines"
            /\ lines' = Split(output, "\n")
    /\ UNCHANGED <<output, cursor, device_map, devices, device_name,
                   found_device, all_found_devices, statusVars>>

\* One iteration of the loop over lines.
ParseLine ==
    /\ bpc = "lines"
    /\ cursor <= Len(lines)
    /\ device_map' = ConsumeLine(device_map, lines[cursor])
    /\ cursor' = cursor + 1
    /\ UNCHANGED <<bpc, output, lines, devices, device_name,
                   found_device, all_found_devices, statusVars>>

\* The conversion of device_map to the returned list.
ParseFinish ==
    /\ bpc = "lines"
    /\ cursor > Len(lines)
    /\ devices' = EmitDevices(device_map)
    /\ bpc' = "parsed"
    /\ UNCHANGED <<output, lines, cursor, device_map, device_name,
                   found_device, all_found_devices, statusVars>>

\* The matching loop over the parsed devices, for a configured name.
MatchDevices ==
    /\ bpc = "parsed"
    /\ \E configured \in ConfiguredNames :
          LET scan == ScanDevices(configured, devices, <<>>)
          IN  /\ device_name' = configured
              /\ found_device' = scan.found
              /\ all_found_devices' = scan.seen
    /\ bpc' = "matched"
    /\ UNCHANGED <<output, lines, cursor, device_map, devices, statusVars>>

BrowseNext == ParseBegin \/ ParseLine \/ ParseFinish \/ MatchDevices

SpecBrowse == BrowseInit /\ [][BrowseNext]_vars

-----------------------------------------------------------------------------
(* One browse check on an output of a single resolved line, drawn from the *)
(* raw names and hostnames a device may advertise.                         *)

RawNames ==
    { "D6BF5E\\064Living\\032Room",
      "AA\\064Bob\\064Home",
      "AA\\064",
      "AA\\064\\032",
      "Caf\\040Bar\\041",
      "Living\\126Room",
      "Kitchen",
      "" }

LineHostnames == {"living-room.local", ""}

LineAddresses == {"192.168.2.10", ""}

\* A resolved _raop._tcp line with an empty TXT record.
ResolvedLine(name, hostname, address) ==
    Join(<<"=", "eth0", "IPv4", name, "_raop._tcp", "local", hostname, address, "7000", "">>,
         ";")

LineOutputs ==
    {ResolvedLine(name, hostname, address) :
        name \in RawNames, hostname \in LineHostnames, address \in LineAddresses}

LineInit ==
    /\ bpc = "start"
    /\ output \in LineOutputs
    /\ lines = <<>>
    /\ cursor = 1
    /\ device_map = <<>>
    /\ devices = <<>>
    /\ device_name = ""
    /\ found_device = FALSE
    /\ all_found_devices = <<>>
    /\ spc = "off"
    /\ env = IdleEnv
    /\ container_data = <<>>
    /\ diagnostics = <<>>
    /\ airplay_status = <<>>
    /\ browsed = NoBrowse
    /\ status_data = <<>>
    /\ response = NoResponse
    /\ elapsed = 0
    /\ call = NoCall
    /\ DIAGNOSTIC_RATE_LIMIT = NoRequests
    /\ clock = 0
    /\ handled = NoRequests
    /\ workers = NoWorkers
    /\ observed = <<>>
    /\ audit = NoAudit
    /\ request = NoRequest
    /\ hooks_yaml = NoFile

SpecLine == LineInit /\ [][BrowseNext]_vars

-----------------------------------------------------------------------------
(* One browse check on outputs whose lines carry different TXT metadata    *)
(* for one key.                                                            *)

MetaLines ==
    { "=;eth0;IPv4;D6BF5E\\064Living\\032Room;_raop._tcp;local;livingroom.local;192.168.2.10;7000;",
      "=;eth0;IPv4;D6BF5E\\064Living\\032Room;_raop._tcp;local;livingroom.local;192.168.2.10;7000;\"fv=1.2\"",
      "=;eth0;IPv4;D6BF5E\\064Living\\032Room;_raop._tcp;local;LivingRoom.local;192.168.2.10;7000;\"fv=2.0\" \"ft=0x1\"",
      "=;eth0;IPv6;D6BF5E\\064Living\\032Room;_raop._tcp;local;livingroom.local;fe80::1;7000;\"ft=0x4A\"",
      "=;eth0;IPv4;D6BF5E\\064Speaker;_raop._tcp;local;speaker.local;192.168.2.11;7000;\"fv=3.0\"" }

MetaOutputs == {Join(q, "\n") : q \in SeqsUpTo(MetaLines, MaxLines)}

MetaInit ==
    /\ bpc = "start"
    /\ output \in MetaOutputs
    /\ lines = <<>>
    /\ cursor = 1
    /\ device_map = <<>>
    /\ devices = <<>>
    /\ device_name = ""
    /\ found_device = FALSE
    /\ all_found_devices = <<>>
    /\ spc = "off"
    /\ env = IdleEnv
    /\ container_data = <<>>
    /\ diagnostics = <<>>
    /\ airplay_status = <<>>
    /\ browsed = NoBrowse
    /\ status_data = <<>>
    /\ response = NoResponse
    /\ elapsed = 0
    /\ call = NoCall
    /\ DIAGNOSTIC_RATE_LIMIT = NoRequests
    /\ clock = 0
    /\ handled = NoRequests
    /\ workers = NoWorkers
    /\ observed = <<>>
    /\ audit = NoAudit
    /\ request = NoRequest
    /\ hooks_yaml = NoFile

SpecMeta == MetaInit /\ [][BrowseNext]_vars

-----------------------------------------------------------------------------
(* get_airplay_devices: the device listing of /api/browser.                *)

\* The avahi-browse calls of get_airplay_devices pass timeout=10.
BrowseTimeout == 10

\* s.split(): the words of s between runs of whitespace.
RECURSIVE Words(_)
Words(s) ==
    LET t == LStrip(s)
        i == CHOOSE k \in 1..(Len(t) + 1) :
                /\ k = Len(t) + 1 \/ IsSpace(SubSeq(t, k, k))
                /\ \A j \in 1..(k - 1) : ~IsSpace(SubSeq(t, j, j))
    IN  IF t = "" THEN <<>>
        ELSE <<SubSeq(t, 1, i - 1)>> \o Words(SubSeq(t, i, Len(t)))

\* host_ip: the first address of 'docker inspect' in the macvlan range,
\* None when the call fails in any way or lists none.
HostIp(o) ==
    LET ips == SelectSeq(Words(Strip(o.stdout)), LAMBDA ip : StartsWith(ip, "192.168.2."))
    IN  IF o.kind = "exit0" /\ ips # <<>> THEN ips[1] ELSE None

\* The key of the cross-type pass: the lower-cased hostname, or the
\* lower-cased name of a device without hostname.
HostnameKey(device) ==
    IF device.hostname # "" THEN Lower(device.hostname) ELSE Lower(device.name)

\* The position in all_devices of the entry with a key, or 0.
RECURSIVE HostIndex(_, _, _)
HostIndex(all, key, i) ==
    IF i > Len(all) THEN 0
    ELSE IF all[i].hostname_key = key THEN i
    ELSE HostIndex(all, key, i + 1)

\* PutDevice with every device stored under a key of its own.
PutDeviceApart(all, device, key, k, raw, flag) ==
    Append(all, (flag :> TRUE) @@ (raw :> device.raw_avahi_data)
                @@ [hostname_key |-> key] @@ device)

\* One device of a browse put into all_devices: raw is the name of the raw
\* list of this browse, flag the name of its capability flag.  A new key
\* stores the device itself with its raw list; an existing entry gets the
\* raw list set, or extended when it has one, and the flag in both cases.
PutDevice(all, device, key, k, raw, flag) ==
    IF key = "" THEN all
    ELSE IF k = 0
    THEN Append(all, (flag :> TRUE) @@ (raw :> device.raw_avahi_data)
                     @@ [hostname_key |-> key] @@ device)
    ELSE [all EXCEPT ![k] =
            (flag :> TRUE)
            @@ (raw :> IF raw \in DOMAIN @ THEN @[raw] \o device.raw_avahi_data
                       ELSE device.raw_avahi_data)
            @@ @]

\* The loop over the devices of one browse.
RECURSIVE PutDevices(_, _, _, _)
PutDevices(all, devs, raw, flag) ==
    IF Len(devs) = 0 THEN all
    ELSE PutDevices(PutDevice(all, devs[1], HostnameKey(devs[1]),
                              HostIndex(all, HostnameKey(devs[1]), 1), raw, flag),
                    Tail(devs), raw, flag)

\* One browse block: a result with exit code 0 is parsed and merged; a
\* non-zero exit, a timeout and every other exception are logged only.
MergeBrowse(all, o, raw, flag) ==
    IF o.kind = "exit0"
    THEN PutDevices(all, parse_avahi_browse_output(o.stdout), raw, flag)
    ELSE all

\* device.get(field) of an entry for a field it may not have.
Has(entry, field) == field \in DOMAIN entry

RawOf(entry, raw) == IF Has(entry, raw) THEN entry[raw] ELSE <<>>

\* The label of the AirPlay versions of an entry.
VersionsLabel(entry) ==
    CASE Has(entry, "airplay2") /\ Has(entry, "airplay1") -> "AirPlay 2, AirPlay Video"
      [] Has(entry, "airplay2") -> "AirPlay 2"
      [] Has(entry, "airplay1") -> "AirPlay Video"
      [] OTHER -> "Unknown"

\* The last loop: the version label and the combined raw list of an
\* entry, as the device is listed.
Listed(entry) ==
    [airplay_versions |-> VersionsLabel(entry),
     raw_avahi_data |-> RawOf(entry, "raw_avahi_data_ap2")
                        \o RawOf(entry, "raw_avahi_data_ap1")]
    @@ [f \in DOMAIN entry \ {"hostname_key"} |-> entry[f]]

\* The JSON object of the response, without its timestamp (the time of the
\* request).
ListingResult(running, host_ip, all) ==
    IF running
    THEN [devices |-> [i \in DOMAIN all |-> Listed(all[i])],
          error |-> None, host_ip |-> host_ip]
    ELSE [devices |-> <<>>, error |-> "Shairport-sync container is not running",
          host_ip |-> host_ip]

\* o_inspect is the outcome of 'docker inspect', o_ps and o_version those
\* inside check_container_status('shairport-sync'), o_raop and o_airplay
\* those of the two avahi-browse calls.
get_airplay_devices(o_inspect, o_ps, o_version, o_raop, o_airplay) ==
    ListingResult(check_container_status("shairport-sync", o_ps, o_version).val.running,
                  HostIp(o_inspect),
                  MergeBrowse(MergeBrowse(<<>>, o_raop, "raw_avahi_data_ap2", "airplay2"),
                              o_airplay, "raw_avahi_data_ap1", "airplay1"))

\* The seconds get_airplay_devices spends.
DevicesCost(o_inspect, o_ps, o_version, o_raop, o_airplay) ==
    Cost(o_inspect, SubprocessTimeout)
    + ContainerCost("shairport-sync", o_ps, o_version)
    + IF check_container_status("shairport-sync", o_ps, o_version).val.running
      THEN Cost(o_raop, BrowseTimeout) + Cost(o_airplay, BrowseTimeout) ELSE 0

\* What the commands of the listing may print.
InspectTexts == {"192.168.2.5\n", "172.18.0.3 192.168.2.6\n", "172.18.0.3\n"}

ListedRaopTexts ==
    {"",
     "=;eth0;IPv4;D6BF5E\\064Living\\032Room;_raop._tcp;local;livingroom.local;192.168.2.10;7000;\"fv=1.2\"\n",
     "=;eth0;IPv4;D6BF5E\\064Living\\032Room;_raop._tcp;local;livingroom.local;192.168.2.10;7000;\"fv=1.2\"\n=;eth0;IPv6;D6BF5E\\064Living\\032Room;_raop._tcp;local;livingroom.local;fe80::1;7000;\n=;eth0;IPv4;D6BF5E\\064Speaker;_raop._tcp;local;speaker.local;192.168.2.11;7000;\n",
     "=;eth0;IPv4;AA\\064TV;_raop._tcp;local;TV.local;192.168.2.12;7000;\n=;eth0;IPv4;AA\\064TV;_RAOP._tcp;local;tv.local;192.168.2.12;7000;\n",
     "=;wlan0;IPv4;Kitchen;_raop._tcp;local;;10.0.0.7;7000;\n"}

ListedAirplayTexts ==
    {"",
     "=;eth0;IPv4;D6BF5E\\064Living\\032Room;_airplay._tcp;local;LivingRoom.local;192.168.2.10;7000;\"ft=0x4A\"\n",
     "=;eth0;IPv4;AA\\064TV;_airplay._tcp;local;tv.local;192.168.2.12;7000;\"fv=2.0\"\n=;eth0;IPv4;AA\\064TV;_AIRPLAY._tcp;local;TV.LOCAL;192.168.2.12;7000;\n",
     "=;wlan0;IPv4;Kitchen;_airplay._tcp;local;;10.0.0.7;7000;\n",
     "+;eth0;IPv4;AA\\064TV;_airplay._tcp;local\n"}

\* The conditions of docker under which a listing is asked for.
ListingEnvs == {e \in Envs : e.curl = "up"}

ListingInit ==
    /\ spc = "browser"
    /\ env \in ListingEnvs
    /\ container_data = <<>>
    /\ diagnostics = <<>>
    /\ airplay_status = <<>>
    /\ browsed = NoBrowse
    /\ status_data = <<>>
    /\ response = NoResponse
    /\ elapsed = 0
    /\ call = NoCall
    /\ DIAGNOSTIC_RATE_LIMIT = NoRequests
    /\ clock = 0
    /\ handled = NoRequests
    /\ workers = NoWorkers
    /\ observed = <<>>
    /\ audit = NoAudit
    /\ request = NoRequest
    /\ hooks_yaml = NoFile
    /\ bpc = "off"
    /\ output = ""
    /\ lines = <<>>
    /\ cursor = 1
    /\ device_map = <<>>
    /\ devices = <<>>
    /\ device_name = ""
    /\ found_device = FALSE
    /\ all_found_devices = <<>>

\* One request of /api/browser, answered by get_airplay_devices.
GetAirplayDevices ==
    /\ spc = "browser"
    /\ \E o_inspect \in Exec(env, "shairport-sync", InspectTexts),
          o_ps \in FilterOutcomes(env, "shairport-sync"),
          o_version \in VersionOutcomes(env, "shairport-sync"),
          o_raop \in BrowseOutcomes(env, ListedRaopTexts),
          o_airplay \in BrowseOutcomes(env, ListedAirplayTexts) :
          /\ response' = [code |-> 200,
                          body |-> get_airplay_devices(o_inspect, o_ps, o_version,
                                                       o_raop, o_airplay)]
          /\ browsed' =
                IF check_container_status("shairport-sync", o_ps, o_version).val.running
                THEN <<o_raop, o_airplay>> ELSE NoBrowse
          /\ elapsed' = elapsed + DevicesCost(o_inspect, o_ps, o_version, o_raop, o_airplay)
    /\ spc' = "listed"
    /\ call' = [adapter |-> "get_airplay_devices", exc |-> "none", missing |-> FALSE]
    /\ UNCHANGED <<env, container_data, diagnostics, airplay_status, status_data,
                   browseVars, limiterVars, configVars, observed, audit>>

ListingNext == GetAirplayDevices

SpecListing == ListingInit /\ [][ListingNext]_vars

-----------------------------------------------------------------------------
(* get_audio_status called on its own.                                     *)

\* What 'pactl list sink-inputs' may print.
AudioListTexts ==
    {"",
     "Sink Input #7\n\tCorked: no\n\t\tapplication.name = \"Shairport Sync\"\n",
     "Sink Input #7\n\tCorked: yes\n\t\tapplication.name = \"Shairport Sync\"\n",
     "Sink Input #7\n\t\tapplication.name = \"Shairport Sync\"\n",
     "Sink Input #9\n\tCorked: yes\n\t\tapplication.name = \"mpv\"\n",
     "Sink Input #7\n\tCorked: no\n\t\tapplication.name = \"Shairport Sync\"\nSink Input #9\n\tCorked: yes\n\t\tapplication.name = \"mpv\"\n"}

AudioInit == AdapterInit("audio_status", {IdleEnv})

\* One call of get_audio_status; the outcomes of its four commands are
\* kept in observed, what it returns in status_data.
GetAudioStatus ==
    /\ spc = "audio_status"
    /\ \E o_info \in AnyOutcome(PactlInfoTexts),
          o_short \in AnyOutcome(SinkShortTexts),
          o_list \in AnyOutcome(AudioListTexts),
          o_virtuals \in Spawn(env.curl, VirtualsTexts) :
          LET r == get_audio_status(o_info, o_short, o_list, o_virtuals)
          IN  /\ call' = Called("get_audio_status", r, <<o_info, o_short, o_list, o_virtuals>>)
              /\ observed' = <<o_info, o_short, o_list, o_virtuals>>
              /\ status_data' = IF r.exc = "none" THEN [audio |-> r.val] ELSE <<>>
              /\ elapsed' = elapsed + AudioCost(o_info, o_short, o_list, o_virtuals)
    /\ spc' = "audio_returned"
    /\ UNCHANGED <<env, container_data, diagnostics, airplay_status, browsed, response,
                   browseVars, limiterVars, configVars, audit>>

AudioNext == GetAudioStatus

SpecAudio == AudioInit /\ [][AudioNext]_vars

-----------------------------------------------------------------------------
(* get_airplay_status called on its own, in two steps: the container      *)
(* query, then the D-Bus check and the browses of a running container.     *)
(* observed lists the commands run, each with its outcome.                 *)

Ran(cmd, o) == [cmd |-> cmd, result |-> o]

\* The names get_airplay_name may return: a configured name, or nothing
\* when the configured name is blank.
AirplayNames == {"Living Room", "TV", "Garage", ""}

AirplayEnvs ==
    {e \in [docker : Conditions, curl : {"up"},
            running : RunningSets, name : AirplayNames] :
        e.docker # "up" => e.running = <<"airglow-web", "ledfx">>}

\* What the two avahi-browse calls may print.
ProbeRaopTexts ==
    {"",
     "=;eth0;IPv4;D6BF5E\\064Living\\032Room;_raop._tcp;local;livingroom.local;192.168.2.10;7000;\"fv=1.2\"\n",
     "=;eth0;IPv4;A1\\064Den;_raop._tcp;local;den.local;192.168.2.21;7000;\n=;eth0;IPv4;A2\\064Hall;_raop._tcp;local;hall.local;192.168.2.22;7000;\n=;eth0;IPv4;A3\\064Attic;_raop._tcp;local;attic.local;192.168.2.23;7000;\n=;eth0;IPv4;A4\\064Porch;_raop._tcp;local;porch.local;192.168.2.24;7000;\n=;eth0;IPv4;A5\\064Study;_raop._tcp;local;study.local;192.168.2.25;7000;\n=;eth0;IPv4;A6\\064Garage;_raop._tcp;local;garage.local;192.168.2.26;7000;\n"}

ProbeAirplayTexts ==
    {"",
     "=;eth0;IPv4;AA\\064TV;_airplay._tcp;local;tv.local;192.168.2.12;7000;\"fv=2.0\"\n",
     "=;eth0;IPv4;AA\\064Living\\126Room;_airplay._tcp;local;lr.local;192.168.2.10;7000;\n"}

AirplayInit == AdapterInit("airplay_query", AirplayEnvs)

\* AfterQuery with the checks made whatever the query reported.
AfterQueryAlways(running) == "airplay_probe"

\* The checks of a running container are made only when the query
\* reported it running.
AfterQuery(running) == IF running THEN "airplay_probe" ELSE "airplay_returned"

\* The configured name is read and check_container_status('shairport-sync')
\* is called; a container that does not run ends the call with its error.
AirplayQuery ==
    /\ spc = "airplay_query"
    /\ \E o_ps \in FilterOutcomes(env, "shairport-sync"),
          o_version \in VersionOutcomes(env, "shairport-sync") :
          LET running == check_container_status("shairport-sync", o_ps, o_version).val.running
          IN  /\ airplay_status' =
                    IF running THEN AirplayStatus(env.name, TRUE)
                    ELSE [AirplayStatus(env.name, FALSE) EXCEPT !.error =
                            AirplayError("Shairport-sync container is not running", {})]
              /\ observed' = <<Ran("docker ps", o_ps)>> \o
                    (IF QueriesVersion("shairport-sync", o_ps)
                     THEN <<Ran("shairport-sync -V", o_version)>> ELSE <<>>)
              /\ elapsed' = elapsed + ContainerCost("shairport-sync", o_ps, o_version)
              /\ spc' = AfterQuery(running)
    /\ call' = [adapter |-> "check_container_status", exc |-> "none", missing |-> FALSE]
    /\ UNCHANGED <<env, container_data, diagnostics, browsed, status_data, response,
                   browseVars, limiterVars, configVars, audit>>

\* The D-Bus check, the two browses when a name is configured, and the
\* matching loops over what they returned.
AirplayProbe ==
    /\ spc = "airplay_probe"
    /\ \E o_dbus \in Exec(env, "shairport-sync", DbusTexts),
          o_raop \in BrowseOutcomes(env, ProbeRaopTexts),
          o_airplay \in BrowseOutcomes(env, ProbeAirplayTexts) :
          LET first_returned == env.name # "" /\ RunRaises(o_raop) = "none"
          IN  /\ airplay_status' =
                    Advertisement(DbusChecked(airplay_status, o_dbus), env.name,
                                  BrowseRaises(o_raop, o_airplay),
                                  ScanSecond(env.name, o_airplay,
                                             ScanBrowse(env.name, o_raop, <<>>)))
              /\ browsed' =
                    (IF first_returned THEN <<o_raop>> ELSE <<>>)
                    \o (IF first_returned /\ RunRaises(o_airplay) = "none"
                        THEN <<o_airplay>> ELSE <<>>)
              /\ observed' = observed \o <<Ran("dbus-send", o_dbus)>>
                    \o (IF env.name # "" THEN <<Ran("avahi-browse _raop._tcp", o_raop)>>
                        ELSE <<>>)
                    \o (IF first_returned THEN <<Ran("avahi-browse _airplay._tcp", o_airplay)>>
                        ELSE <<>>)
              /\ elapsed' = elapsed + BrowseCost(env.name, o_dbus, o_raop, o_airplay)
    /\ spc' = "airplay_returned"
    /\ call' = [adapter |-> "get_airplay_status", exc |-> "none", missing |-> FALSE]
    /\ UNCHANGED <<env, container_data, diagnostics, status_data, response,
                   browseVars, limiterVars, configVars, audit>>

AirplayNext == AirplayQuery \/ AirplayProbe

SpecAirplay == AirplayInit /\ [][AirplayNext]_vars

-----------------------------------------------------------------------------
(* Properties of the status aggregator.                                    *)

\* The fields of a status snapshot.
StatusKeys == {"containers", "ledfx", "ledfx_audio_device", "virtuals",
               "devices", "audio", "airplay", "diagnostics"}

\* The adapters status() calls outside any try block.
UnguardedAdapters == {"get_ledfx_info", "get_ledfx_audio_device",
                      "get_ledfx_virtuals", "get_ledfx_devices", "get_audio_status"}

\* The request has been answered.
Answered == spc \in {"done", "failed"}

\* The response is a snapshot with every field, each holding what its own
\* adapter returned.
CompleteSnapshot ==
    /\ response.code = 200
    /\ DOMAIN response.body = StatusKeys
    /\ response.body.containers = container_data
    /\ response.body.airplay = airplay_status
    /\ response.body.diagnostics = diagnostics
    /\ \A key \in DOMAIN status_data : response.body[key] = status_data[key]

C2_AdaptersNeverRaise == call.exc # "none" => call.missing

\* C3: when curl or docker cannot be found, the request is still answered
\* with a complete snapshot: a command that cannot be spawned never makes
\* the request fail.
C3_SnapshotDespiteMissingExecutable ==
    (Answered /\ (env.docker = "missing" \/ env.curl = "missing")) =>
        \/ CompleteSnapshot
        \/ response.code = 500 /\ call.exc # "none" /\ ~call.missing

\* The most one adapter can spend when every command it spawns runs into
\* its timeout: the container block with the listing and the checks of
\* three containers, two of them with a version query.
LargestAdapterBudget == 6 * SubprocessTimeout

\* C4: the time a status request spends waiting for its commands is
\* bounded by what the slowest single adapter can take, not by the sum
\* over the adapters.
C4_LatencyBoundedByLargestTimeout == spc = "done" => elapsed <= LargestAdapterBudget

-----------------------------------------------------------------------------
(* Properties of the merge engine and of the identity matcher.             *)

\* The decoded display name of a returned device: its name without the
\* service-type label.
DisplayName(d) ==
    SubSeq(d.name, 1, Len(d.name) - Len(ServiceLabel(d.service_type)))

\* The grouping key of a returned device: lower-cased hostname, or
\* lower-cased display name when the hostname is empty, with the
\* lower-cased service type.
DeviceKey(d) ==
    <<IF d.hostname # "" THEN Lower(d.hostname) ELSE Lower(DisplayName(d)),
      Lower(d.service_type)>>

ReturnedKeys(devs) == {DeviceKey(devs[i]) : i \in 1..Len(devs)}

\* The lines of the output in the order given by a permutation p.
Reordered(ls, p) == Join([i \in 1..Len(ls) |-> ls[p[i]]], "\n")

\* The records of the resolved lines among the first n lines, in order.
RECURSIVE ResolvedRecords(_, _)
ResolvedRecords(ls, n) ==
    IF n = 0 THEN <<>>
    ELSE LET line == Strip(ls[n])
             parts == Split(line, ";")
         IN  ResolvedRecords(ls, n - 1) \o
             (IF line # "" /\ IsResolved(parts) THEN <<LineRecord(parts, line)>> ELSE <<>>)

\* The class of an address under the order
\* private-LAN IPv4 > other IPv4 > IPv6 > no address.
AddressClass(address) ==
    IF StartsWith(address, "192.168.") THEN 3
    ELSE IF address = "" THEN 0
    ELSE IF Contains(":", address) THEN 1
    ELSE 2

RECURSIVE MaxClass(_, _)
MaxClass(records, key) ==
    IF Len(records) = 0 THEN 0
    ELSE LET rest == MaxClass(Tail(records), key)
             c == IF records[1].device_key = key
                  THEN AddressClass(records[1].address) ELSE 0
         IN  IF c > rest THEN c ELSE rest

\* C5: for any multiset of resolved lines, the set of merged device keys
\* that parse_avahi_browse_output returns is the same for every ordering
\* of the lines.
C5_KeysSameForEveryOrder ==
    bpc = "parsed" =>
        \A p \in Permutations(1..Len(lines)) :
            ReturnedKeys(parse_avahi_browse_output(Reordered(lines, p)))
                = ReturnedKeys(devices)

\* C6: once a merged entry holds a private-LAN IPv4 address (prefix
\* 192.168.), no later line of the same key replaces it with an address
\* that is not private-LAN.
C6_PrivateAddressNeverReplaced ==
    [][\A i \in 1..Len(device_map) :
          StartsWith(device_map[i].address, "192.168.")
              => StartsWith(device_map'[i].address, "192.168.")]_vars

\* C7: when all lines are merged, each entry's address is of the highest
\* class present among the lines of its key, whatever their order.
C7_BestAddressClassWins ==
    bpc = "parsed" =>
        \A i \in 1..Len(device_map) :
            AddressClass(device_map[i].address)
                = MaxClass(ResolvedRecords(lines, Len(lines)), device_map[i].device_key)

\* The raw lines, in order, of the records with a key.
RECURSIVE RawLinesOf(_, _)
RawLinesOf(records, key) ==
    IF Len(records) = 0 THEN <<>>
    ELSE (IF records[1].device_key = key THEN <<records[1].line>> ELSE <<>>)
         \o RawLinesOf(Tail(records), key)

\* C8: within one call no two entries, and no two returned devices, have
\* the same key: every resolved line is merged into the one entry of its
\* key, whose raw-record list holds exactly the lines of that key consumed
\* so far, in order.
C8_OneEntryPerKey ==
    LET consumed == ResolvedRecords(lines, cursor - 1)
    IN  /\ \A i, j \in 1..Len(device_map) :
              device_map[i].device_key = device_map[j].device_key => i = j
        /\ \A i \in 1..Len(device_map) :
              device_map[i].raw_avahi_data = RawLinesOf(consumed, device_map[i].device_key)
        /\ \A n \in 1..Len(consumed) :
              \E i \in 1..Len(device_map) : device_map[i].device_key = consumed[n].device_key
        /\ \A i, j \in 1..Len(devices) :
              DeviceKey(devices[i]) = DeviceKey(devices[j]) => i = j

\* A call that merged two lines into one entry and returned two devices.
C8_Witness ==
    /\ bpc = "parsed"
    /\ Len(devices) = 2
    /\ \E i \in 1..Len(devices) : Len(devices[i].raw_avahi_data) = 2

\* C9: a discovered device whose display name equals the configured name
\* is matched.
C9_MatchReflexive ==
    bpc = "matched" =>
        \A i \in 1..Len(devices) :
            (DisplayName(devices[i]) = device_name \/ devices[i].name = device_name)
                => found_device

\* A match of the configured name against a device advertised under it.
C9_Witness ==
    /\ bpc = "matched"
    /\ found_device
    /\ Len(devices) = 1
    /\ DisplayName(devices[1]) = device_name
    /\ devices[1].name # device_name

\* s in lower case without its spaces and tildes.
RECURSIVE Undecorated(_)
Undecorated(s) ==
    IF Len(s) = 0 THEN ""
    ELSE (IF Head(s) \in {" ", "~"} THEN "" ELSE Lower(SubSeq(s, 1, 1)))
         \o Undecorated(Tail(s))

\* Two names that differ at most in letter case, spaces and tildes.
SameButDecoration(a, b) == Undecorated(a) = Undecorated(b)

\* C10: a device whose display name or hostname differs from the
\* configured name only in letter case, spaces and tildes is matched.
C10_MatchToleratesDecoration ==
    bpc = "matched" =>
        \A i \in 1..Len(devices) :
            (\/ SameButDecoration(device_name, DisplayName(devices[i]))
             \/ SameButDecoration(device_name, devices[i].hostname))
                => found_device

\* "Living Room" matched against the advertised name "Living~Room", which
\* does not contain it.
C10_Witness ==
    /\ bpc = "matched"
    /\ found_device
    /\ device_name = "Living Room"
    /\ Len(devices) = 1
    /\ DisplayName(devices[1]) = "Living~Room"
    /\ ~Contains(Lower(device_name), Lower(devices[1].name))

-----------------------------------------------------------------------------
(* Properties of the advertisement check of get_airplay_status.            *)

\* The devices parsed from the result of one avahi-browse call.
ParsedDevices(o) ==
    IF o.kind = "exit0" THEN parse_avahi_browse_output(o.stdout) ELSE <<>>

\* Some device parsed from the browse results satisfies the identity
\* matcher against the configured name.
SomeDeviceMatches(name, results) ==
    \E i \in DOMAIN results :
        \E k \in DOMAIN ParsedDevices(results[i]) :
            MatchesDevice(name, ParsedDevices(results[i])[k])

\* C11: get_airplay_status reports advertising only if some device parsed
\* from the browse outputs of the request satisfies the identity matcher
\* against the configured name; when both browse calls returned and no
\* parsed device matches it reports not advertising, and when one matches
\* it reports advertising.  The state looked at is the one in which
\* get_airplay_status has just returned.
C11_AdvertisingIffSomeDeviceMatches ==
    spc = "ledfx" =>
        /\ airplay_status.advertising => SomeDeviceMatches(env.name, browsed)
        /\ Len(browsed) = 2 =>
              (SomeDeviceMatches(env.name, browsed) => airplay_status.advertising)

\* A request whose AirPlay 2 browse lists no matching device and whose
\* AirPlay 1 browse lists one: advertising is reported.
C11_Witness ==
    /\ spc = "ledfx"
    /\ airplay_status.advertising
    /\ Len(browsed) = 2
    /\ ParsedDevices(browsed[1]) # <<>>
    /\ ~SomeDeviceMatches(env.name, <<browsed[1]>>)

-----------------------------------------------------------------------------
(* Properties of the record parser.                                        *)

\* A line tagged '=' with at least 10 semicolon-separated fields.
TaggedResolved(line) ==
    Split(line, ";")[1] = "=" /\ Len(Split(line, ";")) >= 10

\* C12: parse_avahi_browse_output returns, without raising, what it
\* returns for the input with every line removed that is not tagged '=' or
\* has fewer than 10 fields.
C12_OtherLinesSkipped ==
    bpc = "parsed" =>
        devices = parse_avahi_browse_output(Join(SelectSeq(lines, TaggedResolved), "\n"))

\* A call on an output with a resolved line before a line that is skipped,
\* which returned a device.
C12_Witness ==
    /\ bpc = "parsed"
    /\ Len(lines) >= 2
    /\ TaggedResolved(lines[1])
    /\ ~TaggedResolved(lines[2])
    /\ Len(devices) >= 1

\* The resolved line of the example.
ExampleLine ==
    "=;eth0;IPv4;D6BF5E\\064Living\\032Room;_raop._tcp;local;livingroom.local;192.168.2.10;7000;\"fv=1.2\""

\* C13: the example line parses to one device with the decoded display
\* name "Living Room" (carried in the name field with the label of its
\* service type), hostname "livingroom.local", address "192.168.2.10" and
\* firmware version "1.2".
C13_ExampleLineParses ==
    (bpc = "parsed" /\ output = ExampleLine) =>
        /\ Len(devices) = 1
        /\ DisplayName(devices[1]) = "Living Room"
        /\ devices[1].name = "Living Room (AirPlay 2 Audio)"
        /\ devices[1].hostname = "livingroom.local"
        /\ devices[1].address = "192.168.2.10"
        /\ devices[1].firmware_version = "1.2"

\* The example line has been parsed into a device.
C13_Witness ==
    /\ bpc = "parsed"
    /\ output = ExampleLine
    /\ Len(devices) = 1
    /\ devices[1].raw_avahi_data = <<ExampleLine>>

-----------------------------------------------------------------------------
(* Properties of the device listing.                                       *)

\* The parsed devices of a browse result whose hostname is h, compared in
\* lower case.
DevicesOfHost(o, h) ==
    SelectSeq(ParsedDevices(o), LAMBDA d : d.hostname # "" /\ Lower(d.hostname) = h)

\* The raw lines of a sequence of devices, one device after the other.
RECURSIVE RawLines(_)
RawLines(devs) ==
    IF Len(devs) = 0 THEN <<>> ELSE devs[1].raw_avahi_data \o RawLines(Tail(devs))

\* The hostnames, in lower case, found by both browses.
HostsOfBoth(raop, airplay) ==
    ({Lower(ParsedDevices(raop)[i].hostname) : i \in DOMAIN ParsedDevices(raop)}
     \cap {Lower(ParsedDevices(airplay)[i].hostname) : i \in DOMAIN ParsedDevices(airplay)})
    \ {""}

\* C14: a hostname found, in whatever letter case, by both the _raop._tcp
\* and the _airplay._tcp browse is listed as exactly one device, with
\* airplay_versions "AirPlay 2, AirPlay Video" and a raw-record list made of
\* the raw lines of that hostname from both browses (those of AirPlay 2
\* first).
C14_OneDevicePerHostname ==
    (spc = "listed" /\ Len(browsed) = 2) =>
        \A h \in HostsOfBoth(browsed[1], browsed[2]) :
            \E i \in DOMAIN response.body.devices :
                /\ Lower(response.body.devices[i].hostname) = h
                /\ \A j \in DOMAIN response.body.devices :
                      Lower(response.body.devices[j].hostname) = h => j = i
                /\ response.body.devices[i].airplay_versions = "AirPlay 2, AirPlay Video"
                /\ response.body.devices[i].raw_avahi_data =
                      RawLines(DevicesOfHost(browsed[1], h))
                      \o RawLines(DevicesOfHost(browsed[2], h))

\* A listing in which a hostname spelled in different letter case by the
\* two browses is one device with the raw lines of both.
C14_Witness ==
    /\ spc = "listed"
    /\ Len(browsed) = 2
    /\ \E i \in DOMAIN response.body.devices :
          /\ response.body.devices[i].hostname = "livingroom.local"
          /\ response.body.devices[i].airplay_versions = "AirPlay 2, AirPlay Video"
          /\ Len(response.body.devices[i].raw_avahi_data) = 3
          /\ Len(DevicesOfHost(browsed[2], "livingroom.local")) = 1
          /\ DevicesOfHost(browsed[2], "livingroom.local")[1].hostname = "LivingRoom.local"

-----------------------------------------------------------------------------
(* Properties of the name decoding.                                        *)

\* The raw service name of the single line of the output.
RawName == Split(output, ";")[4]

\* The part of a raw name after its first \064 escape, the whole name when
\* it has none.
AfterFirstEscape(name) ==
    IF Contains("\\064", name)
    THEN SubSeq(name, Find(name, "\\064", 1) + 4, Len(name))
    ELSE name

\* Each escape \NNN replaced by the character of decimal byte value NNN.
DecimalDecoded(s) ==
    Replace(Replace(Replace(Replace(Replace(s, "\\064", "@"), "\\032", " "),
                            "\\126", "~"), "\\040", "("), "\\041", ")")

\* C15: the decoded name of a raw name with one or several \064 escapes is
\* what follows the first of them, and a raw name without the escape is
\* used whole (the other escapes decoded as ReplaceEscapes does; a name
\* that comes out empty is left to the hostname fallback).
C15_NameFollowsFirstEscape ==
    (/\ bpc = "parsed"
     /\ Len(devices) = 1
     /\ RawName # ""
     /\ Strip(ReplaceEscapes(AfterFirstEscape(RawName))) # "") =>
        DisplayName(devices[1])
            = Strip(ReplaceEscapes(Replace(AfterFirstEscape(RawName), "\\064", "@")))

\* C16: the decoded name has every escape \NNN replaced by the character of
\* decimal byte value NNN: \032 by a space, \126 by '~', \040 by '(' and
\* \041 by ')' (checked on raw names without the \064 separator).
C16_EscapesDecodeToTheirBytes ==
    (/\ bpc = "parsed"
     /\ Len(devices) = 1
     /\ RawName # ""
     /\ ~Contains("\\064", RawName)) =>
        DisplayName(devices[1]) = Strip(DecimalDecoded(RawName))

\* A fallback name: the raw name "AA\064" decodes to nothing and the
\* device is named after the first label of its hostname.
C20_Witness ==
    /\ bpc = "parsed"
    /\ RawName = "AA\\064"
    /\ Len(devices) = 1
    /\ devices[1].hostname = "living-room.local"
    /\ DisplayName(devices[1]) = "living room"

\* C20: when the decoded raw name is empty, the device name is the first
\* dot-separated label of the hostname with hyphens replaced by spaces.
C20_EmptyNameFallsBackToHostname ==
    (/\ bpc = "parsed"
     /\ Len(devices) = 1
     /\ Strip(DecodeName(RawName)) = "") =>
        DisplayName(devices[1]) = Replace(Split(devices[1].hostname, ".")[1], "-", " ")

-----------------------------------------------------------------------------
(* Properties of the merged entries.                                       *)

\* An entry with an address or a hostname.
HasAddressOrHostname(entry) == entry.address # "" \/ entry.hostname # ""

\* C18: the returned devices are exactly the merged entries that have a
\* non-empty address or a non-empty hostname, in the order of the entries;
\* an entry with neither is not returned.
C18_ReturnedIffAddressOrHostname ==
    bpc = "parsed" =>
        /\ Len(devices) = Len(SelectSeq(device_map, HasAddressOrHostname))
        /\ \A i \in DOMAIN devices :
              /\ HasAddressOrHostname(devices[i])
              /\ devices[i] = Device(SelectSeq(device_map, HasAddressOrHostname)[i])

\* A call that merged two entries and returned one of them, the other
\* having neither address nor hostname.
C18_Witness ==
    /\ bpc = "parsed"
    /\ Len(device_map) = 2
    /\ Len(devices) = 1
    /\ \E i \in DOMAIN device_map : ~HasAddressOrHostname(device_map[i])

\* The value of a metadata field carried by the earliest record of a key
\* that carries one, None when no record of the key does.
RECURSIVE FirstCarried(_, _, _)
FirstCarried(records, key, field) ==
    IF Len(records) = 0 THEN None
    ELSE IF records[1].device_key = key /\ records[1][field] # None
         THEN records[1][field]
         ELSE FirstCarried(Tail(records), key, field)

\* C19: at every point of the merge, the firmware version and the feature
\* flags of an entry are those of the earliest line of its key that carries
\* them; a later line does not overwrite them.
C19_MetadataFirstSeenWins ==
    \A i \in DOMAIN device_map :
        /\ device_map[i].firmware_version =
              FirstCarried(ResolvedRecords(lines, cursor - 1),
                           device_map[i].device_key, "firmware_version")
        /\ device_map[i].feature_flags =
              FirstCarried(ResolvedRecords(lines, cursor - 1),
                           device_map[i].device_key, "feature_flags")

\* A merge in which a second line carried another firmware version and
\* other feature flags than the entry already had.
C19_Witness ==
    /\ bpc = "parsed"
    /\ Len(device_map) = 1
    /\ Len(device_map[1].raw_avahi_data) = 3
    /\ device_map[1].firmware_version = "1.2"
    /\ device_map[1].feature_flags = "0x4A"
    /\ \E n \in DOMAIN lines : Contains("fv=2.0", lines[n])

-----------------------------------------------------------------------------
(* Properties of requests served one after the other.                      *)

\* C17: a status request that observed the same outcomes of the sources as
\* an earlier status request is answered with the same response, whatever
\* status and diagnose requests were served in between and whatever the
\* rate limiter holds.
C17_SameOutcomesSameSnapshot ==
    (/\ Answered
     /\ audit.kept # <<>>
     /\ audit.kept[1].observed = observed) =>
        audit.kept[1].response = response

\* A status request answered with a snapshot after the diagnose requests
\* filled the rate limiter, on the outcomes an earlier status request
\* observed.
C17_Witness ==
    /\ spc = "done"
    /\ audit.kept # <<>>
    /\ audit.kept[1].observed = observed
    /\ response.code = 200
    /\ response.body.diagnostics.warnings # JNum(0)
    /\ Len(DIAGNOSTIC_RATE_LIMIT[FirstClient]) = RATE_LIMIT_MAX_REQUESTS

-----------------------------------------------------------------------------
(* Properties of get_audio_status.                                         *)

\* What 'pactl list sink-inputs' printed to the call, nothing when the
\* call did not get as far as running it.
SinkInputListing ==
    IF observed[1].kind = "exit0" /\ observed[2].kind = "exit0"
    THEN observed[3].stdout ELSE ""

\* C21: shairport_corked is true exactly when the sink-input listing holds
\* both 'Shairport Sync' and 'Corked: yes'; with neither 'Corked: yes' nor
\* 'Corked: no' in it the cork state is false; and a corked Shairport is a
\* connected one.
C21_CorkedIffClientAndMarker ==
    (spc = "audio_returned" /\ call.exc = "none") =>
        LET audio == status_data.audio
        IN  /\ audio.shairport_corked <=>
                  /\ Contains("Shairport Sync", SinkInputListing)
                  /\ Contains("Corked: yes", SinkInputListing)
            /\ (/\ ~Contains("Corked: yes", SinkInputListing)
                /\ ~Contains("Corked: no", SinkInputListing)) => ~audio.shairport_corked
            /\ audio.shairport_corked => audio.shairport_connected

\* A connected Shairport whose listing holds neither marker: the cork
\* state is the default.
C21_Witness ==
    /\ spc = "audio_returned"
    /\ call.exc = "none"
    /\ status_data.audio.shairport_connected
    /\ ~status_data.audio.shairport_corked
    /\ ~Contains("Corked: yes", SinkInputListing)
    /\ ~Contains("Corked: no", SinkInputListing)

-----------------------------------------------------------------------------
(* Properties of get_airplay_status.                                       *)

\* The positions in observed of the avahi-browse calls.
BrowseCalls ==
    {i \in DOMAIN observed :
        observed[i].cmd \in {"avahi-browse _raop._tcp", "avahi-browse _airplay._tcp"}}

\* The first command run was the container query and it listed the
\* shairport-sync container.
QueryReportedRunning ==
    /\ observed # <<>>
    /\ observed[1].cmd = "docker ps"
    /\ observed[1].result.kind = "exit0"
    /\ Contains("shairport-sync", observed[1].result.stdout)

\* C22: a browse is run only after the container query has reported the
\* shairport-sync container running; when the container does not run, no
\* browse is run, advertising is false and error is 'Shairport-sync
\* container is not running'.
C22_BrowseOnlyWhenContainerRuns ==
    /\ BrowseCalls # {} => QueryReportedRunning /\ airplay_status.running
    /\ (spc = "airplay_returned" /\ ~airplay_status.running) =>
          /\ BrowseCalls = {}
          /\ browsed = NoBrowse
          /\ ~airplay_status.advertising
          /\ airplay_status.error =
                AirplayError("Shairport-sync container is not running", {})

\* The call returned for a container that the query did not list: docker
\* answered, nothing was browsed.
C22_Witness ==
    /\ spc = "airplay_returned"
    /\ ~airplay_status.running
    /\ observed[1].result.kind = "exit0"
    /\ Len(observed) = 1
    /\ airplay_status.error.text = "Shairport-sync container is not running"

\* The candidate names observed in the browse results: of every parsed
\* device its lower-cased name, or hostname when it has no name.
ObservedCandidates(results) ==
    UNION {{FoundName(ParsedDevices(results[i])[k]) : k \in DOMAIN ParsedDevices(results[i])} :
             i \in DOMAIN results}

\* C23: when both browses returned and no device matched, error names the
\* configured device and lists at most 5 of the observed candidate names,
\* or says that no devices were found when none was observed; when a
\* device matched, error is unset.
C23_ErrorListsUpToFiveCandidates ==
    (spc = "airplay_returned" /\ Len(browsed) = 2) =>
        IF SomeDeviceMatches(env.name, browsed)
        THEN airplay_status.error = NoError
        ELSE /\ StartsWith(airplay_status.error.text,
                           "Device \"" \o env.name \o "\" not found.")
             /\ Cardinality(airplay_status.error.names) <= 5
             /\ airplay_status.error.names \subseteq ObservedCandidates(browsed)
             /\ IF ObservedCandidates(browsed) = {}
                THEN /\ airplay_status.error.names = {}
                     /\ Contains("No AirPlay devices found", airplay_status.error.text)
                ELSE /\ airplay_status.error.names # {}
                     /\ Contains("Found devices: ", airplay_status.error.text)

\* Seven candidates observed, none matching: five of them are listed.
C23_Witness ==
    /\ spc = "airplay_returned"
    /\ Len(browsed) = 2
    /\ ~airplay_status.advertising
    /\ Cardinality(ObservedCandidates(browsed)) = 7
    /\ Cardinality(airplay_status.error.names) = 5

-----------------------------------------------------------------------------
(* restart_container: POST /api/container/<container_name>/restart.        *)

\* allowed_containers, taken as everything: the mutation of the allow-list.
AllowedOrWeb == <<"avahi", "nqptp", "ledfx", "shairport-sync", "airglow-web">>

\* allowed_containers.
allowed_containers == <<"avahi", "nqptp", "ledfx", "shairport-sync">>

\* The names a request can carry in its path.
PathNames == Range(allowed_containers) \cup
             {"airglow-web", "LedFX", "ledfx ", "", "ledfx;reboot"}

\* What 'docker restart' writes to stderr when it fails.
RestartErrors == {"", "Error response from daemon: No such container"}

\* The answer of restart_container to container_name when 'docker restart'
\* ended as o with stderr written.
restart_answer(container_name, o, stderr) ==
    CASE o.kind = "exit0" ->
            [code |-> 200,
             body |-> [success |-> TRUE,
                       message |-> "Container " \o container_name
                                      \o " restarted successfully"]]
      [] o.kind = "nonzero" ->
            [code |-> 500,
             body |-> [success |-> FALSE,
                       error |-> IF stderr # "" THEN stderr
                                 ELSE "Failed to restart container"]]
      [] o.kind = "timeout" ->
            [code |-> 500,
             body |-> [success |-> FALSE, error |-> "Restart operation timed out"]]
      [] OTHER ->
            [code |-> 500,
             body |-> [success |-> FALSE,
                       error |-> "An error occurred while restarting the container"]]

\* restart_container(container_name): a name outside the allow-list is
\* answered 400 before anything is run; observed holds the commands the
\* request ran.
restart_container ==
    /\ spc = "restart"
    /\ \E container_name \in PathNames :
          /\ request' = [container_name |-> container_name]
          /\ IF container_name \notin Range(allowed_containers)
             THEN /\ response' = [code |-> 400,
                                  body |-> [error |-> "Invalid container name"]]
                  /\ observed' = <<>>
             ELSE \E o \in Spawn(env.docker, {container_name \o "\n"}),
                     stderr \in RestartErrors :
                      /\ response' = restart_answer(container_name, o, stderr)
                      /\ observed' = <<Ran("docker restart " \o container_name, o)>>
    /\ call' = [adapter |-> "restart_container", exc |-> "none", missing |-> FALSE]
    /\ UNCHANGED <<spc, env, container_data, diagnostics, airplay_status, browsed,
                   status_data, elapsed, audit, hooks_yaml, limiterVars, browseVars>>

RestartInit == AdapterInit("restart", Envs)

SpecRestart == RestartInit /\ [][restart_container]_vars

-----------------------------------------------------------------------------
(* save_config: POST /api/config.                                          *)

ScenesUnavailable == [connected |-> FALSE, scenes |-> <<>>]

get_ledfx_scenes(o) ==
    LET Shape(data) ==
            LET ss == data.d["scenes"]
            IN  CASE KeyTestRaises("scenes", data) # "none" ->
                        Raise(KeyTestRaises("scenes", data))
                  [] data.t # "dict" \/ "scenes" \notin DOMAIN data.d ->
                        Return([connected |-> TRUE, scenes |-> <<>>])
                  [] ss.t # "dict" -> Raise("AttributeError")
                  [] \E sid \in DOMAIN ss.d : ss.d[sid].t # "dict" ->
                        Raise("AttributeError")
                  [] OTHER ->
                        Return([connected |-> TRUE,
                                scenes |-> [sid \in DOMAIN ss.d |->
                                              [name |-> Get(ss.d[sid], "name", JStr(sid)),
                                               virtuals |-> Get(ss.d[sid], "virtuals",
                                                                JList(<<>>))]]])
    IN  Try(CurlJson(o, ScenesUnavailable, Shape(json_loads(o.stdout))), LedfxCaught, ScenesUnavailable)

ScenesTexts == {ScenesJson, ListJson, HtmlText}

\* The modes, the lists of virtuals and the lists of scenes a hook of a
\* request may carry.
HookModes == {"toggle", "scene", "blink"}
HookVirtuals == { <<>>,
                  <<[id |-> "v1", repeats |-> 1]>>,
                  <<[id |-> "ghost", repeats |-> 1]>>,
                  <<[id |-> "v1", repeats |-> -1]>> }
HookScenes == { <<>>, <<"party">>, <<"nope">> }

Hooks == [mode : HookModes, all_virtuals : BOOLEAN,
          virtuals : HookVirtuals, scenes : HookScenes]

\* The JSON bodies of the requests: every key is present.
ConfigRequests == [start_enabled : BOOLEAN, end_enabled : {TRUE},
                   start_hook : Hooks, end_hook : Hooks]

\* open(HOOKS_YAML, 'w') and yaml.dump: done, or failed with an OSError.
Written == [kind |-> "written", stdout |-> ""]
WriteFailed == [kind |-> "oserror", stdout |-> ""]

BadRequest(message) == [code |-> 400, body |-> [error |-> message]]

\* The answer of the except clauses with app.debug off.
SaveFailed == [code |-> 500, body |-> [error |-> "Error saving configuration"]]

Saved == [code |-> 200, body |-> [success |-> TRUE]]

\* str() of the repeats of a request.
Repeats(n) == IF n < 0 THEN "-" \o Decimal(0 - n) ELSE Decimal(n)

\* The loop over the virtuals of a hook: the answer it returns early, or
\* NoResponse when it runs through. available is available_virtuals, which
\* is bound only when the start hook is in toggle mode; reading it unbound
\* raises UnboundLocalError, which the outer except answers.
RECURSIVE CheckVirtuals(_, _, _)
CheckVirtuals(hook, virtuals, available) ==
    IF Len(virtuals) = 0 THEN NoResponse
    ELSE LET vid == virtuals[1].id
             repeats == virtuals[1].repeats
         IN  CASE vid # "" /\ ~available.bound -> SaveFailed
               [] vid # "" /\ vid \notin available.ids ->
                     BadRequest("Invalid virtual ID in " \o hook \o " hook: " \o vid)
               [] repeats < 0 ->
                     BadRequest("Invalid repeats for " \o vid \o " in " \o hook
                                   \o " hook: must be integer >= 0")
               [] OTHER -> CheckVirtuals(hook, Tail(virtuals), available)

\* The loop over the scenes of a hook.
RECURSIVE CheckScenes(_, _, _)
CheckScenes(hook, scenes, available_scenes) ==
    IF Len(scenes) = 0 THEN NoResponse
    ELSE IF scenes[1] \notin available_scenes
         THEN BadRequest("Invalid scene ID in " \o hook \o " hook: " \o scenes[1])
         ELSE CheckScenes(hook, Tail(scenes), available_scenes)

\* set(x.get(key, {}).keys()) if x.get('connected') else set()
AvailableIds(r, key) ==
    IF r.exc = "none" /\ r.val.connected THEN DOMAIN r.val[key] ELSE {}

\* yaml_data of save_virtual_config.
YamlData(data) ==
    [ledfx |-> [host |-> "localhost", port |-> 8888],
     hooks |-> [start |-> [enabled |-> data.start_enabled,
                           mode |-> data.start_hook.mode,
                           all_virtuals |-> data.start_hook.all_virtuals,
                           virtuals |-> data.start_hook.virtuals,
                           scenes |-> data.start_hook.scenes],
                end |-> [enabled |-> data.end_enabled,
                         mode |-> data.end_hook.mode,
                         all_virtuals |-> data.end_hook.all_virtuals,
                         virtuals |-> data.end_hook.virtuals,
                         scenes |-> data.end_hook.scenes]]]

\* save_config on the body data, for the outcomes of the curl call for the
\* virtuals, of the two for the scenes, and of the write: the answer, the
\* calls that were made, and whether the file was written.
save_config(data, o_virtuals, o_start_scenes, o_end_scenes, o_write) ==
    LET start == data.start_hook
        end == data.end_hook
        Answer(resp, ran) == [response |-> resp, ran |-> ran, written |-> FALSE]
        toggles == start.mode = "toggle"
        virtuals_list == get_ledfx_virtuals(o_virtuals)
        ran_virtuals == IF toggles THEN <<Ran("curl /api/virtuals", o_virtuals)>> ELSE <<>>
        available_virtuals == [bound |-> toggles,
                               ids |-> IF toggles THEN AvailableIds(virtuals_list, "virtuals")
                                       ELSE {}]
        start_virtuals == IF toggles /\ ~start.all_virtuals
                          THEN CheckVirtuals("start", start.virtuals, available_virtuals)
                          ELSE NoResponse
        end_virtuals == IF end.mode = "toggle" /\ ~end.all_virtuals
                        THEN CheckVirtuals("end", end.virtuals, available_virtuals)
                        ELSE NoResponse
        start_list == get_ledfx_scenes(o_start_scenes)
        ran_start == ran_virtuals \o
                     (IF start.mode = "scene"
                      THEN <<Ran("curl /api/scenes", o_start_scenes)>> ELSE <<>>)
        start_scenes == IF start.mode = "scene"
                        THEN CheckScenes("start", start.scenes,
                                         AvailableIds(start_list, "scenes"))
                        ELSE NoResponse
        end_list == get_ledfx_scenes(o_end_scenes)
        ran_end == ran_start \o
                   (IF end.mode = "scene"
                    THEN <<Ran("curl /api/scenes", o_end_scenes)>> ELSE <<>>)
        end_scenes == IF end.mode = "scene"
                      THEN CheckScenes("end", end.scenes, AvailableIds(end_list, "scenes"))
                      ELSE NoResponse
        ran_all == ran_end \o <<Ran("write HOOKS_YAML", o_write)>>
    IN  CASE start.mode \notin {"toggle", "scene"} ->
                Answer(BadRequest("Invalid mode for start hook: " \o start.mode
                                     \o ". Must be \"toggle\" or \"scene\""), <<>>)
          [] end.mode \notin {"toggle", "scene"} ->
                Answer(BadRequest("Invalid mode for end hook: " \o end.mode
                                     \o ". Must be \"toggle\" or \"scene\""), <<>>)
          [] toggles /\ virtuals_list.exc # "none" -> Answer(SaveFailed, ran_virtuals)
          [] start_virtuals # NoResponse -> Answer(start_virtuals, ran_virtuals)
          [] end_virtuals # NoResponse -> Answer(end_virtuals, ran_virtuals)
          [] start.mode = "scene" /\ start_list.exc # "none" -> Answer(SaveFailed, ran_start)
          [] start_scenes # NoResponse -> Answer(start_scenes, ran_start)
          [] end.mode = "scene" /\ end_list.exc # "none" -> Answer(SaveFailed, ran_end)
          [] end_scenes # NoResponse -> Answer(end_scenes, ran_end)
          [] o_write # Written -> Answer(SaveFailed, ran_all)
          [] OTHER -> [response |-> Saved, ran |-> ran_all, written |-> TRUE]

\* The conditions of curl during a request; docker plays no part.
ConfigEnvs == {e \in Envs : e.docker = "up" /\ e.running = IdleEnv.running}

ConfigInit == AdapterInit("save_config", ConfigEnvs)

\* One POST /api/config.
SaveConfig ==
    /\ spc = "save_config"
    /\ \E data \in ConfigRequests,
          o_virtuals \in Spawn(env.curl, VirtualsTexts),
          o_start_scenes \in Spawn(env.curl, ScenesTexts),
          o_end_scenes \in Spawn(env.curl, ScenesTexts),
          o_write \in {Written, WriteFailed} :
          LET r == save_config(data, o_virtuals, o_start_scenes, o_end_scenes, o_write)
          IN  /\ request' = data
              /\ response' = r.response
              /\ observed' = r.ran
              /\ hooks_yaml' = IF r.written THEN YamlData(data) ELSE hooks_yaml
    /\ spc' = "config_answered"
    /\ call' = [adapter |-> "save_config", exc |-> "none", missing |-> FALSE]
    /\ UNCHANGED <<env, container_data, diagnostics, airplay_status, browsed,
                   status_data, elapsed, audit, limiterVars, browseVars>>

SpecConfig == ConfigInit /\ [][SaveConfig]_vars

-----------------------------------------------------------------------------
(* Properties of rate_limit_diagnose.                                      *)

\* The number of calls of diagnose() for a client in the window that ends
\* at time t: those at most t and less than RATE_LIMIT_WINDOW before it.
HandledWithin(client, t) ==
    Cardinality({i \in DOMAIN handled[client] :
                    /\ handled[client][i] <= t
                    /\ t - handled[client][i] < RATE_LIMIT_WINDOW})

\* No window holds more than RATE_LIMIT_MAX_REQUESTS calls of diagnose()
\* for one client; it is enough to look at the windows that end at a call.
WindowBound ==
    \A client \in Clients : \A i \in DOMAIN handled[client] :
        HandledWithin(client, handled[client][i]) <= RATE_LIMIT_MAX_REQUESTS

\* The step in which thread w leaves the check: the request is turned away
\* exactly when its own client had RATE_LIMIT_MAX_REQUESTS calls handled in
\* the window; it is then answered 429, diagnose() is not called and the
\* map is left as it is.
CheckStep(w) ==
    (workers[w].pc = "check" /\ workers'[w].pc # "check") =>
        IF HandledWithin(workers[w].client_id, workers[w].current_time)
              >= RATE_LIMIT_MAX_REQUESTS
        THEN /\ response' = RateLimited
             /\ workers'[w].pc = "idle"
             /\ handled' = handled
             /\ DIAGNOSTIC_RATE_LIMIT' = DIAGNOSTIC_RATE_LIMIT
        ELSE workers'[w].pc = "append"

\* C24: with requests handled one after another, no 60-second window
\* holds more than 5 admitted requests of one client; a further request in
\* the window is answered 429, without diagnose() being called and without
\* its time being recorded; and a request is turned away only on the
\* count of its own client.
C24_AtMostFivePerWindow ==
    /\ []WindowBound
    /\ [][\A w \in Workers : CheckStep(w)]_vars

\* The first client is turned away after five calls while the other
\* client has been admitted.
C24_Witness ==
    /\ response = RateLimited
    /\ Len(handled[FirstClient]) = RATE_LIMIT_MAX_REQUESTS
    /\ \E client \in Clients \ {FirstClient} : Len(handled[client]) > 0
    /\ \A w \in Workers : workers[w].pc = "idle"

\* How often t occurs in a list of times.
Occurrences(times, t) == Cardinality({i \in DOMAIN times : times[i] = t})

\* C26: with the requests of one client handled at the same time, the
\* steps of rate_limit_diagnose interleaving, no 60-second window holds
\* more than 5 admitted requests, and the time of every admitted request
\* that is younger than the window is in the map.
C26_LimitHoldsForConcurrentRequests ==
    /\ WindowBound
    /\ \A client \in Clients : \A i \in DOMAIN handled[client] :
          clock - handled[client][i] < RATE_LIMIT_WINDOW =>
              Occurrences(DIAGNOSTIC_RATE_LIMIT[client], handled[client][i])
                  >= Occurrences(handled[client], handled[client][i])

-----------------------------------------------------------------------------
(* Properties of restart_container.                                        *)

\* The names the route is documented to serve.
AllowList == {"avahi", "nqptp", "ledfx", "shairport-sync"}

\* C25: 'docker restart' is run only for a name of the allow-list, and
\* then for that name; every other name, airglow-web among them, is
\* answered 400 'Invalid container name' and no command is run.
C25_RestartOnlyAllowedContainers ==
    request # NoRequest =>
        IF request.container_name \in AllowList
        THEN /\ Len(observed) = 1
             /\ observed[1].cmd = "docker restart " \o request.container_name
             /\ response.code # 400
        ELSE /\ observed = <<>>
             /\ response = [code |-> 400, body |-> [error |-> "Invalid container name"]]

\* airglow-web was asked for and turned away, with docker at hand.
C25_Witness ==
    /\ request # NoRequest
    /\ request.container_name = "airglow-web"
    /\ response.code = 400
    /\ env.docker = "up"

-----------------------------------------------------------------------------
(* Properties of the matching over merged devices.                         *)

\* C27: for a fixed configured name, the result of the matching loop is
\* the same for every permutation of the lines of the browse output, also
\* when lines with different advertised names share one hostname and
\* service type and are merged into one entry.
C27_AdvertisingSameForEveryOrder ==
    bpc = "matched" =>
        \A p \in Permutations(1..Len(lines)) :
            ScanDevices(device_name,
                        parse_avahi_browse_output(Reordered(lines, p)), <<>>).found
                = found_device

\* The form in which names are compared: lower case, without tildes and
\* spaces.
Cleaned(text) == Lower(Replace(Replace(text, "~", ""), " ", ""))

\* C28: a device is found only if the configured name, compared without
\* case, spaces and tildes, is contained in the decoded advertised name or
\* in the hostname of some returned device; the service-type label of the
\* display name does not make a match.
C28_LabelNeverMatches ==
    (bpc = "matched" /\ found_device) =>
        \E i \in 1..Len(devices) :
            \/ Contains(Cleaned(device_name), Cleaned(DisplayName(devices[i])))
            \/ Contains(Cleaned(device_name), Cleaned(devices[i].hostname))

\* C29: in every merged entry that is returned, the address, interface,
\* protocol and port are those of one and the same resolved line of its
\* key.
C29_AddressFieldsFromOneLine ==
    bpc = "parsed" =>
        LET records == ResolvedRecords(lines, Len(lines))
        IN  \A i \in 1..Len(device_map) :
                (device_map[i].address # "" \/ device_map[i].hostname # "") =>
                    \E j \in 1..Len(records) :
                        /\ records[j].device_key = device_map[i].device_key
                        /\ records[j].address = device_map[i].address
                        /\ records[j].interface = device_map[i].interface
                        /\ records[j].protocol = device_map[i].protocol
                        /\ records[j].port = device_map[i].port

-----------------------------------------------------------------------------
(* Properties of save_config.                                              *)

\* The virtuals and the scenes LedFX has when it answers in full.
LedfxVirtuals == {"v1"}
LedfxScenes == {"party"}

\* Every ID the hook lists exists in LedFX, and no repeat count is
\* negative.
ValidHook(hook) ==
    /\ hook.mode \in {"toggle", "scene"}
    /\ \A i \in DOMAIN hook.virtuals :
          hook.virtuals[i].id \in LedfxVirtuals /\ hook.virtuals[i].repeats >= 0
    /\ \A i \in DOMAIN hook.scenes : hook.scenes[i] \in LedfxScenes

\* LedFX answered every call of the request in full, and no write failed.
SourcesAnswered ==
    \A i \in DOMAIN observed :
        observed[i].result \in {Ok(VirtualsJson), Ok(ScenesJson), Written}

\* C30: a request whose hook modes are valid and whose virtual and scene
\* IDs all exist in LedFX is saved and answered with success, whatever the
\* combination of start and end modes; it is never answered with an error.
C30_ValidConfigIsSaved ==
    (/\ spc = "config_answered"
     /\ ValidHook(request.start_hook)
     /\ ValidHook(request.end_hook)
     /\ SourcesAnswered) =>
        /\ response = Saved
        /\ hooks_yaml = YamlData(request)

====
